---- MODULE Spec2Model ----
(***************************************************************************)
(* A model of the real time library (rtl / rtlcpp):                        *)
(*   - spsc_ringbuffer   (librtlcpp/ring_buffer.cpp)                       *)
(*   - unordered_map     (librtlcpp/include/rtlcpp/map.hpp)                *)
(*   - control_blk, shared_ptr, weak_ptr (librtlcpp/include/rtlcpp/memory.hpp) *)
(*   - the TLSF arena    (librtl, rtl/memory.h)                            *)
(*   - object_pool       (librtlcpp/include/rtlcpp/object_pool.hpp)        *)
(*   - lru               (librtlcpp/include/rtlcpp/lru.hpp)                *)
(*   - PeriodicTask      (librtlcpp/include/rtlcpp/task.hpp)               *)
(* Each component has its own variables and its own specification; the     *)
(* variables of the other components stay at their initial values.         *)
(***************************************************************************)
EXTENDS Integers, Sequences, FiniteSets, TLC

VARIABLES
  \* spsc_ringbuffer
  m_buf,            \* the backing bytes, a function 0..Capacity-1 -> byte
  m_read_index,     \* std::atomic<uint32_t>, owned by the consumer
  m_write_index,    \* std::atomic<uint32_t>, owned by the producer
  rb_op,            \* the last completed call and what it returned
  prod,             \* producer thread: position and locals
  cons,             \* consumer thread: position and locals
  sent,             \* number of bytes the producer has committed
  consumed,         \* number of bytes the consumer has committed as read
  recv,             \* the bytes the consumer has obtained, in order
  \* unordered_map<uint8_t, T>
  m_main,           \* Table*
  m_secondary,      \* Table* (NULL outside a transfer)
  m_state,          \* MapState
  m_current_bucket_to_transfer,
  m_locked,
  m_max_load_factor_percent,  \* the max_load_factor of the constructor x 100
  heap,             \* the value objects: address -> value, or Free
  oom_count,        \* number of allocation failures so far
  ref,              \* reference map: key -> value of the last put, or NULL
  held,             \* key -> the pointer a get(key) returned, or NULL
  \* control_blk<T, Alloc> with its shared_ptr and weak_ptr handles
  m_strong_count,   \* std::atomic<uint32_t>
  m_weak_count,     \* std::atomic<uint32_t>
  m_data,           \* "live" until deinit, then "null"
  dtor_count,       \* number of runs of the payload destructor
  dealloc_count,    \* number of deallocations of the control block
  uaf,              \* TRUE once a handle operation touched a freed block
  thr,              \* per thread: position, locals and the handles it owns
  \* rtl_tlsf_arena
  blocks,           \* block headers by offset in the managed region
  free_lists,       \* head block of every (fli, sli) list, or NoBlock
  fl_bitmap,        \* set of the first level indices whose bit is set
  sl_bitmap,        \* per first level index, the set of the sli bits set
  tlsf_op,          \* the last completed call and what it returned
  \* object_pool<T, Alloc>
  m_vector,         \* rtl::vector<T*>: [buf, capacity], buf the raw slots
  m_elasticity,
  pool_out,         \* the slots get() handed out, objects constructed
  pool_made,        \* number of slots obtained from the allocator so far
  pool_lost,        \* slots that are neither in the pool nor handed out
  pool_op,          \* the last completed call and what it returned
  \* lru<Key, T, Alloc>
  m_head,           \* LRUNode*, the most recently used node, or NULL
  m_tail,           \* LRUNode*, the least recently used node, or NULL
  m_size,
  lru_capacity,     \* m_capacity of the lru
  lru_nodes,        \* the constructed LRUNodes: node -> [key, val, prev, next]
  lru_map,          \* m_map: key -> LRUNode*, or NULL
  lru_pool,         \* m_pool: the raw slots, last one handed out first
  lru_ref,          \* reference cache: <<key, val>> pairs, most recent first
  lru_op,           \* the last completed call and what it returned
  \* PeriodicTask<Callable>
  m_thread,         \* position of the task thread in the lambda of priv_start
  m_mtx,            \* std::mutex: "free" or the thread that holds it
  m_shutdown,
  m_started,
  m_errored_out_num,
  m_options,        \* [set_sched_params, timeout]: which options are set
  task_user,        \* position of the thread that owns the PeriodicTask
  task_pending      \* a notify_one was made and no invocation started since

rbVars == <<m_buf, m_read_index, m_write_index, rb_op, prod, cons, sent,
            consumed, recv>>

mapVars == <<m_main, m_secondary, m_state, m_current_bucket_to_transfer,
             m_locked, m_max_load_factor_percent, heap, oom_count, ref,
             held>>

ptrVars == <<m_strong_count, m_weak_count, m_data, dtor_count, dealloc_count,
             uaf, thr>>

tlsfVars == <<blocks, free_lists, fl_bitmap, sl_bitmap, tlsf_op>>

poolVars == <<m_vector, m_elasticity, pool_out, pool_made, pool_lost,
              pool_op>>

lruVars == <<m_head, m_tail, m_size, lru_capacity, lru_nodes, lru_map, lru_pool, lru_ref,
             lru_op>>

taskVars == <<m_thread, m_mtx, m_shutdown, m_started, m_errored_out_num,
              m_options, task_user, task_pending>>

vars == <<rbVars, mapVars, ptrVars, tlsfVars, poolVars, lruVars, taskVars>>

nonRbVars == <<mapVars, ptrVars, tlsfVars, poolVars, lruVars, taskVars>>
nonMapVars == <<rbVars, ptrVars, tlsfVars, poolVars, lruVars, taskVars>>
nonPtrVars == <<rbVars, mapVars, tlsfVars, poolVars, lruVars, taskVars>>
nonTlsfVars == <<rbVars, mapVars, ptrVars, poolVars, lruVars, taskVars>>
nonPoolVars == <<rbVars, mapVars, ptrVars, tlsfVars, lruVars, taskVars>>
nonLruVars == <<rbVars, mapVars, ptrVars, tlsfVars, poolVars, taskVars>>
nonTaskVars == <<rbVars, mapVars, ptrVars, tlsfVars, poolVars, lruVars>>

Min(a, b) == IF a < b THEN a ELSE b

\* the element of a set of one element: Only({f(x) : x \in {e}}) is f(e)
\* with e computed once
Only(S) == CHOOSE r \in S : TRUE

(***************************************************************************)
(* spsc_ringbuffer                                                         *)
(***************************************************************************)

\* Size of the backing buffer handed to the constructor.
Capacity == 3

\* Byte values used by the callers of the sequential interface.
NumBytes == 2

\* Total number of bytes the producer thread sends.
MaxBytes == 5

Byte == 0..(NumBytes - 1)

m_capacity == Capacity

m_writable_capacity == IF m_capacity > 0 THEN m_capacity - 1 ELSE 0

\* get_bytes_written without the slot at the end of the buffer
get_bytes_written_noWrapSlot(write_index, read_index) ==
  IF write_index >= read_index
    THEN write_index - read_index
    ELSE (m_writable_capacity - read_index) + write_index

get_bytes_written(write_index, read_index) ==
  IF write_index >= read_index
    THEN write_index - read_index
    ELSE (m_writable_capacity - read_index + 1) + write_index

\* std::memcpy(&m_buf[start], src + off, cnt); src is a function on 0-based
\* offsets.
MemcpyIn(buf, start, src, off, cnt) ==
  [i \in DOMAIN buf |->
     IF i >= start /\ i < start + cnt THEN src[off + (i - start)] ELSE buf[i]]

\* The caller's memory seen through the pointer input: the sz bytes of the
\* input followed by whatever lies behind them (garbage).
Source(input, garbage) ==
  [i \in 0..(Len(input) + Capacity) |->
     IF i < Len(input) THEN input[i + 1] ELSE garbage]

\* Number of bytes of the caller's memory that priv_write reads.
priv_write_reads(amt_bytes_to_write, write_index, read_index) ==
  IF write_index >= read_index
    THEN LET until_end_of_buffer == m_writable_capacity - write_index + 1
             from_beginning_of_buffer ==
               IF until_end_of_buffer > amt_bytes_to_write
                 THEN 0 ELSE amt_bytes_to_write - until_end_of_buffer
         IN  until_end_of_buffer + from_beginning_of_buffer
    ELSE amt_bytes_to_write

priv_write(buf, src, amt_bytes_to_write, write_index, read_index) ==
  IF write_index >= read_index
    THEN LET until_end_of_buffer == m_writable_capacity - write_index + 1
             from_beginning_of_buffer ==
               IF until_end_of_buffer > amt_bytes_to_write
                 THEN 0 ELSE amt_bytes_to_write - until_end_of_buffer
             b1 == MemcpyIn(buf, write_index, src, 0, until_end_of_buffer)
         IN  MemcpyIn(b1, 0, src, until_end_of_buffer,
                      from_beginning_of_buffer)
    ELSE MemcpyIn(buf, write_index, src, 0, amt_bytes_to_write)

\* The index write() and write_bytes() store after copying.
write_store_index(write_index, sz) == (write_index + sz) % m_capacity

\* write without the free space check
write_noSpaceCheck(buf, w, r, input, isNull, garbage) ==
  LET sz == Len(input)
      bytes_written == get_bytes_written(w, r)
      space_left == m_writable_capacity - bytes_written
      amt_bytes_to_write == Min(sz, space_left)
  IN  IF sz > m_writable_capacity THEN [ret |-> FALSE, buf |-> buf, w |-> w]
      ELSE IF sz = 0 THEN [ret |-> TRUE, buf |-> buf, w |-> w]
      ELSE IF isNull THEN [ret |-> FALSE, buf |-> buf, w |-> w]
      ELSE [ret |-> TRUE,
            buf |-> priv_write(buf, Source(input, garbage),
                               amt_bytes_to_write, w, r),
            w   |-> write_store_index(w, sz)]

\* bool write(input, sz): the result and the buffer and write index after it.
write(buf, w, r, input, isNull, garbage) ==
  LET sz == Len(input)
      bytes_written == get_bytes_written(w, r)
      space_left == m_writable_capacity - bytes_written
      amt_bytes_to_write == Min(sz, space_left)
  IN  IF sz > m_writable_capacity THEN [ret |-> FALSE, buf |-> buf, w |-> w]
      ELSE IF sz = 0 THEN [ret |-> TRUE, buf |-> buf, w |-> w]
      ELSE IF isNull THEN [ret |-> FALSE, buf |-> buf, w |-> w]
      ELSE IF sz > space_left THEN [ret |-> FALSE, buf |-> buf, w |-> w]
      ELSE [ret |-> TRUE,
            buf |-> priv_write(buf, Source(input, garbage),
                               amt_bytes_to_write, w, r),
            w   |-> write_store_index(w, sz)]

\* The index write_bytes() stores after copying amt bytes of a request that
\* was clamped to sz.
write_bytes_store_index(write_index, sz, amt_bytes_to_write) ==
  (write_index + sz) % m_capacity

\* uint32_t write_bytes(input, sz)
write_bytes(buf, w, r, input, isNull, garbage) ==
  LET sz0 == Len(input)
      sz == IF sz0 > m_writable_capacity THEN m_writable_capacity ELSE sz0
      bytes_written == get_bytes_written(w, r)
      space_left == m_writable_capacity - bytes_written
      amt_bytes_to_write == Min(sz, space_left)
  IN  IF isNull THEN [ret |-> 0, buf |-> buf, w |-> w]
      ELSE IF sz = 0 THEN [ret |-> 0, buf |-> buf, w |-> w]
      ELSE [ret |-> amt_bytes_to_write,
            buf |-> priv_write(buf, Source(input, garbage),
                               amt_bytes_to_write, w, r),
            w   |-> write_bytes_store_index(w, sz, amt_bytes_to_write)]

\* Number of bytes the first memcpy of read() stores at output when the
\* stored bytes wrap around the end of the buffer.
read_first_chunk(amt_bytes_to_read, read_index) ==
  m_writable_capacity - read_index + 1

\* The bytes read() stores at output, in order of their offset from output.
read_output(buf, w, r, amt_bytes_to_read) ==
  IF w >= r
    THEN [i \in 1..amt_bytes_to_read |-> buf[r + i - 1]]
    ELSE LET until_end_of_buffer == read_first_chunk(amt_bytes_to_read, r)
             from_beginning_of_buffer ==
               IF until_end_of_buffer > amt_bytes_to_read
                 THEN 0 ELSE amt_bytes_to_read - until_end_of_buffer
         IN  [i \in 1..(until_end_of_buffer + from_beginning_of_buffer) |->
                IF i <= until_end_of_buffer
                  THEN buf[r + i - 1]
                  ELSE buf[i - until_end_of_buffer - 1]]

\* uint32_t read(output, max_read)
read(buf, w, r, max_read0, isNull) ==
  LET max_read == IF max_read0 > m_writable_capacity
                    THEN m_writable_capacity ELSE max_read0
      bytes_written == get_bytes_written(w, r)
      amt_bytes_to_read == Min(max_read, bytes_written)
  IN  IF isNull THEN [ret |-> 0, out |-> <<>>, r |-> r]
      ELSE IF max_read = 0 THEN [ret |-> 0, out |-> <<>>, r |-> r]
      ELSE [ret |-> amt_bytes_to_read,
            out |-> read_output(buf, w, r, amt_bytes_to_read),
            r   |-> (r + amt_bytes_to_read) % m_capacity]

\* The stored (written and not yet read) bytes, oldest first.
Occupancy(w, r) == (w - r + m_capacity) % m_capacity

Contents(buf, w, r) ==
  [i \in 1..Occupancy(w, r) |-> buf[(r + i - 1) % m_capacity]]

Stored == Occupancy(m_write_index, m_read_index)

\* A caller's input of n bytes.
InputOf(base, n) == [i \in 1..n |-> (base + i - 1) % NumBytes]

\* The byte values a call can meet in the caller's memory; they play no part
\* when the call returns before it touches that memory.
CallerBytes(n, isNull) == IF isNull \/ n = 0 THEN {0} ELSE Byte

NoOp == [name |-> "none"]

InitRB ==
  /\ m_buf = [i \in 0..(Capacity - 1) |-> 0]
  /\ m_read_index = 0
  /\ m_write_index = 0
  /\ rb_op = NoOp
  /\ prod = [pc |-> "idle"]
  /\ cons = [pc |-> "idle"]
  /\ sent = 0
  /\ consumed = 0
  /\ recv = <<>>

\* ---- the copying interface, one call per step (a single caller) ----

Write ==
  \E n \in 0..(Capacity + 1), isNull \in BOOLEAN :
  \E base \in CallerBytes(n, isNull), g \in CallerBytes(n, isNull) :
    LET input == InputOf(base, n)
        res == write(m_buf, m_write_index, m_read_index, input, isNull, g)
    IN  /\ m_buf' = res.buf
        /\ m_write_index' = res.w
        /\ rb_op' = [name |-> "write", input |-> input, isNull |-> isNull,
                     ret |-> res.ret]
        /\ UNCHANGED nonRbVars /\ UNCHANGED <<m_read_index, prod, cons, sent, consumed, recv>>

WriteBytes ==
  \E n \in 0..(Capacity + 1), isNull \in BOOLEAN :
  \E base \in CallerBytes(n, isNull), g \in CallerBytes(n, isNull) :
    LET input == InputOf(base, n)
        res == write_bytes(m_buf, m_write_index, m_read_index, input,
                           isNull, g)
    IN  /\ m_buf' = res.buf
        /\ m_write_index' = res.w
        /\ rb_op' = [name |-> "write_bytes", input |-> input,
                     isNull |-> isNull, ret |-> res.ret]
        /\ UNCHANGED nonRbVars /\ UNCHANGED <<m_read_index, prod, cons, sent, consumed, recv>>

Read ==
  \E max_read \in 0..(Capacity + 1), isNull \in BOOLEAN :
    LET res == read(m_buf, m_write_index, m_read_index, max_read, isNull)
    IN  /\ m_read_index' = res.r
        /\ rb_op' = [name |-> "read", max_read |-> max_read,
                     isNull |-> isNull, ret |-> res.ret, out |-> res.out]
        /\ UNCHANGED nonRbVars /\ UNCHANGED <<m_buf, m_write_index, prod, cons, sent, consumed, recv>>

NextRB == Write \/ WriteBytes \/ Read

\* C7: write(input, n) with a valid input is all-or-nothing: it returns
\* false and leaves both indices and the buffer unchanged when n exceeds the
\* writable capacity or the free space; otherwise it returns true and the
\* number of stored bytes grows by exactly n; n = 0 returns true and changes
\* nothing.
C7_WriteAllOrNothing ==
  [][(rb_op'.name = "write" /\ ~rb_op'.isNull) =>
       LET n == Len(rb_op'.input)
       IN  IF n > m_writable_capacity \/ n > m_writable_capacity - Stored
             THEN /\ rb_op'.ret = FALSE
                  /\ UNCHANGED <<m_read_index, m_write_index, m_buf>>
             ELSE /\ rb_op'.ret = TRUE
                  /\ Stored' = Stored + n
                  /\ m_read_index' = m_read_index
                  /\ (n = 0 => UNCHANGED <<m_write_index, m_buf>>)]_vars

\* A write that fits the capacity was rejected for lack of free space.
C7_Witness ==
  /\ rb_op.name = "write"
  /\ ~rb_op.isNull
  /\ rb_op.ret = FALSE
  /\ Len(rb_op.input) \in 1..m_writable_capacity
  /\ Stored > 0

\* C8: write_bytes(input, n) with a valid input returns k, n clamped to the
\* writable capacity and to the free space; the number of stored bytes grows
\* by exactly k, the write index advances by k modulo the capacity, and the
\* k newest stored bytes are input[0..k).
C8_WriteBytesClamped ==
  [][(rb_op'.name = "write_bytes" /\ ~rb_op'.isNull) =>
       LET n == Len(rb_op'.input)
           k == Min(Min(n, m_writable_capacity), m_writable_capacity - Stored)
       IN  /\ rb_op'.ret = k
           /\ Stored' = Stored + k
           /\ m_write_index' = (m_write_index + k) % m_capacity
           /\ m_read_index' = m_read_index
           /\ Contents(m_buf', m_write_index', m_read_index')
                = Contents(m_buf, m_write_index, m_read_index)
                    \o SubSeq(rb_op'.input, 1, k)]_vars

\* C9: read(output, max_read) with a valid output returns
\* m = min(max_read, stored bytes), advances the read index by m and stores
\* exactly m bytes at output, never more than max_read.
C9_ReadBounded ==
  [][(rb_op'.name = "read" /\ ~rb_op'.isNull) =>
       LET m == Min(rb_op'.max_read, Stored)
       IN  /\ rb_op'.ret = m
           /\ m_read_index' = (m_read_index + m) % m_capacity
           /\ Len(rb_op'.out) = m
           /\ Len(rb_op'.out) <= rb_op'.max_read
           /\ rb_op'.out = SubSeq(Contents(m_buf, m_write_index,
                                           m_read_index), 1, m)]_vars

\* C39: for every position of the indices, a write(input, n) that returns
\* true reads at most the n bytes of input, and a write_bytes(input, n) with
\* a valid input reads at most as many bytes of input as it returns.
C39_ReadsOnlyInput ==
  \A n \in 1..(Capacity + 1) :
    \A input \in {[i \in 1..n |-> 0]} :
      /\ write(m_buf, m_write_index, m_read_index, input, FALSE, 0).ret =>
           priv_write_reads(n, m_write_index, m_read_index) <= n
      /\ \A k \in {write_bytes(m_buf, m_write_index, m_read_index, input,
                                FALSE, 0).ret} :
           priv_write_reads(k, m_write_index, m_read_index) <= k

\* ---- the zero-copy interface ----

\* the contiguous region without the byte gained when the read index has
\* left slot 0
largest_contiguous_block_size_noExtra(write_index, read_index) ==
  IF write_index >= read_index
    THEN m_writable_capacity - write_index
    ELSE read_index - write_index - 1

\* the contiguous region with the extra byte counted wherever the read index
\* is
largest_contiguous_block_size_alwaysExtra(write_index, read_index) ==
  IF write_index >= read_index
    THEN (m_writable_capacity - write_index) + 1
    ELSE read_index - write_index - 1

\* The size of the contiguous region alloc_contig can hand out.
largest_contiguous_block_size(write_index, read_index) ==
  IF write_index >= read_index
    THEN (m_writable_capacity - write_index)
           + (IF read_index # 0 THEN 1 ELSE 0)
    ELSE read_index - write_index - 1

\* alloc_contig returning the pointer to the start of the buffer
alloc_contig_fromStart(write_index, read_index, requested_size, eob) ==
  LET largest == largest_contiguous_block_size(write_index, read_index)
  IN  [ptr |-> 0, sz |-> Min(largest, requested_size), end_of_buffer |-> eob]

\* unsigned char* alloc_contig(uint32_t* sz, bool* end_of_buffer_ptr);
\* eob is the caller's flag, left alone unless the request is reduced.
alloc_contig(write_index, read_index, requested_size, eob) ==
  LET largest == largest_contiguous_block_size(write_index, read_index)
      end_of_buffer == write_index >= read_index /\ read_index # 0
  IN  IF largest < requested_size
        THEN [ptr |-> write_index, sz |-> largest,
              end_of_buffer |-> end_of_buffer]
        ELSE [ptr |-> write_index, sz |-> requested_size,
              end_of_buffer |-> eob]

\* compound_alloc_contig with the second segment given all the free bytes
compound_alloc_contig_noSubtract(write_index, read_index) ==
  LET free_bytes == m_writable_capacity
                      - get_bytes_written(write_index, read_index)
      largest == largest_contiguous_block_size(write_index, read_index)
  IN  [first_buf |-> IF largest = 0 THEN -1 ELSE write_index,
       first_buf_sz |-> largest,
       second_buf |-> IF largest = 0 \/ free_bytes = 0 THEN -1 ELSE 0,
       second_buf_sz |-> IF largest = 0 THEN 0 ELSE free_bytes,
       write_ahead_of_read |-> write_index >= read_index,
       assertion |-> largest = 0 \/ largest <= free_bytes]

\* alloc_result compound_alloc_contig(): a null pointer is -1; assertion is
\* the value of the asserted condition, TRUE where the assert is not reached.
compound_alloc_contig(write_index, read_index) ==
  LET bytes_written == get_bytes_written(write_index, read_index)
      free_bytes == m_writable_capacity - bytes_written
      largest == largest_contiguous_block_size(write_index, read_index)
      rval == [first_buf |-> -1, first_buf_sz |-> 0,
               second_buf |-> -1, second_buf_sz |-> 0,
               write_ahead_of_read |-> write_index >= read_index,
               assertion |-> TRUE]
  IN  IF largest = 0
        THEN rval
        ELSE LET first == [rval EXCEPT !.first_buf = write_index,
                                       !.first_buf_sz = largest,
                                       !.assertion = largest <= free_bytes]
                 rest == free_bytes - largest
             IN  IF rest = 0
                   THEN first
                   ELSE [first EXCEPT !.second_buf = 0,
                                      !.second_buf_sz = rest]

\* void commit_write(uint32_t sz): the write index after the call.
commit_write(write_index, sz) ==
  IF sz = 0 THEN write_index ELSE (write_index + sz) % m_capacity

\* unsigned char* read_contig(uint32_t* out_sz, bool* end_of_buffer_ptr)
read_contig(write_index, read_index, requested_size, eob) ==
  LET largest == IF write_index >= read_index
                   THEN write_index - read_index
                   ELSE m_writable_capacity - read_index + 1
      end_of_buffer == ~(write_index >= read_index)
  IN  IF largest < requested_size
        THEN [ptr |-> read_index, sz |-> largest,
              end_of_buffer |-> end_of_buffer]
        ELSE [ptr |-> read_index, sz |-> requested_size,
              end_of_buffer |-> eob]

\* void commit_read(uint32_t sz): the read index after the call.
commit_read(read_index, sz) ==
  IF sz = 0 THEN read_index ELSE (read_index + sz) % m_capacity

\* ---- one producer thread and one consumer thread ----
\* The producer sends the bytes 0, 1, 2, ... ; every load and store of an
\* atomic index and every copy is a step of its own.

\* What lies behind the producer's input in its memory.
JunkBytes == {0, 255}

NextInput(n) == [i \in 1..n |-> sent + i - 1]

Idle == [pc |-> "idle"]

\* write(): the early returns, then m_write_index.load()
P_Write ==
  /\ prod.pc = "idle"
  /\ \E n \in 1..m_writable_capacity :
       /\ sent + n <= MaxBytes
       /\ prod' = [pc |-> "w_load_r", n |-> n, w |-> m_write_index]
  /\ UNCHANGED nonRbVars /\ UNCHANGED <<m_buf, m_read_index, m_write_index, rb_op, cons, sent,
                 consumed, recv>>

\* write(): m_read_index.load() and the free space check
P_WriteLoadR ==
  /\ prod.pc = "w_load_r"
  /\ LET r == m_read_index
         space_left == m_writable_capacity - get_bytes_written(prod.w, r)
     IN  prod' = IF prod.n > space_left
                   THEN Idle
                   ELSE [pc |-> "w_copy", n |-> prod.n, w |-> prod.w,
                         r |-> r, amt |-> Min(prod.n, space_left)]
  /\ UNCHANGED nonRbVars /\ UNCHANGED <<m_buf, m_read_index, m_write_index, rb_op, cons, sent,
                 consumed, recv>>

\* write(): priv_write
P_WriteCopy ==
  /\ prod.pc = "w_copy"
  /\ \E g \in JunkBytes :
       m_buf' = priv_write(m_buf, Source(NextInput(prod.n), g), prod.amt,
                           prod.w, prod.r)
  /\ prod' = [prod EXCEPT !.pc = "w_store"]
  /\ UNCHANGED nonRbVars /\ UNCHANGED <<m_read_index, m_write_index, rb_op, cons, sent, consumed,
                 recv>>

\* write(): m_write_index.store()
P_WriteStore ==
  /\ prod.pc = "w_store"
  /\ m_write_index' = write_store_index(prod.w, prod.n)
  /\ sent' = sent + prod.n
  /\ prod' = Idle
  /\ UNCHANGED nonRbVars /\ UNCHANGED <<m_buf, m_read_index, rb_op, cons, consumed, recv>>

\* alloc_contig(): m_write_index.load()
P_Alloc ==
  /\ prod.pc = "idle"
  /\ sent < MaxBytes
  /\ \E sz \in 1..m_capacity :
       prod' = [pc |-> "a_load_r", sz |-> sz, w |-> m_write_index]
  /\ UNCHANGED nonRbVars /\ UNCHANGED <<m_buf, m_read_index, m_write_index, rb_op, cons, sent,
                 consumed, recv>>

\* alloc_contig(): m_read_index.load() and the result
P_AllocLoadR ==
  /\ prod.pc = "a_load_r"
  /\ LET res == alloc_contig(prod.w, m_read_index, prod.sz, FALSE)
     IN  prod' = [pc |-> "a_fill", ptr |-> res.ptr, sz |-> res.sz,
                  end_of_buffer |-> res.end_of_buffer,
                  req |-> prod.sz, r |-> m_read_index]
  /\ UNCHANGED nonRbVars /\ UNCHANGED <<m_buf, m_read_index, m_write_index, rb_op, cons, sent,
                 consumed, recv>>

\* alloc_contig() called again with the same request before commit_write;
\* the write index it loads is the one only this thread stores to.
P_AllocAgain ==
  /\ prod.pc = "a_fill"
  /\ LET res == alloc_contig(m_write_index, m_read_index, prod.req, FALSE)
     IN  prod' = [prod EXCEPT !.ptr = res.ptr, !.sz = res.sz,
                              !.end_of_buffer = res.end_of_buffer,
                              !.r = m_read_index]
  /\ UNCHANGED nonRbVars /\ UNCHANGED <<m_buf, m_read_index, m_write_index, rb_op, cons, sent,
                 consumed, recv>>

\* the caller stores n <= sz bytes through the returned pointer
P_Fill ==
  /\ prod.pc = "a_fill"
  /\ \E n \in 0..Min(prod.sz, MaxBytes - sent) :
       /\ m_buf' = MemcpyIn(m_buf, prod.ptr,
                            [i \in 0..n |-> sent + i], 0, n)
       /\ prod' = [pc |-> "a_commit", n |-> n]
  /\ UNCHANGED nonRbVars /\ UNCHANGED <<m_read_index, m_write_index, rb_op, cons, sent, consumed,
                 recv>>

\* commit_write(n)
P_Commit ==
  /\ prod.pc = "a_commit"
  /\ m_write_index' = commit_write(m_write_index, prod.n)
  /\ sent' = sent + prod.n
  /\ prod' = Idle
  /\ UNCHANGED nonRbVars /\ UNCHANGED <<m_buf, m_read_index, rb_op, cons, consumed, recv>>

\* compound_alloc_contig(): m_write_index.load()
P_Compound ==
  /\ prod.pc = "idle"
  /\ sent < MaxBytes
  /\ prod' = [pc |-> "c_load_r", w |-> m_write_index]
  /\ UNCHANGED nonRbVars /\ UNCHANGED <<m_buf, m_read_index, m_write_index, rb_op, cons, sent,
                 consumed, recv>>

\* compound_alloc_contig(): m_read_index.load() and the result
P_CompoundLoadR ==
  /\ prod.pc = "c_load_r"
  /\ prod' = [pc |-> "c_fill",
              rval |-> compound_alloc_contig(prod.w, m_read_index)]
  /\ UNCHANGED nonRbVars /\ UNCHANGED <<m_buf, m_read_index, m_write_index, rb_op, cons, sent,
                 consumed, recv>>

\* the caller stores n bytes, through the first pointer and then through
\* the second
P_CompoundFill ==
  /\ prod.pc = "c_fill"
  /\ \E n \in 0..Min(prod.rval.first_buf_sz + prod.rval.second_buf_sz,
                     MaxBytes - sent) :
       LET n1 == Min(n, prod.rval.first_buf_sz)
           src == [i \in 0..n |-> sent + i]
           buf1 == MemcpyIn(m_buf, prod.rval.first_buf, src, 0, n1)
       IN  /\ m_buf' = MemcpyIn(buf1, prod.rval.second_buf, src, n1, n - n1)
           /\ prod' = [pc |-> "a_commit", n |-> n]
  /\ UNCHANGED nonRbVars /\ UNCHANGED <<m_read_index, m_write_index, rb_op, cons, sent, consumed,
                 recv>>

\* read(): the early returns, then m_write_index.load()
C_Read ==
  /\ cons.pc = "idle"
  /\ \E max_read \in 1..m_writable_capacity :
       cons' = [pc |-> "r_copy", max_read |-> max_read, w |-> m_write_index]
  /\ UNCHANGED nonRbVars /\ UNCHANGED <<m_buf, m_read_index, m_write_index, rb_op, prod, sent,
                 consumed, recv>>

\* read(): m_read_index.load() and the copies to output; the consumer takes
\* the first amt_bytes_to_read bytes of output as read.
C_ReadCopy ==
  /\ cons.pc = "r_copy"
  /\ LET r == m_read_index
         amt == Min(cons.max_read, get_bytes_written(cons.w, r))
         out == read_output(m_buf, cons.w, r, amt)
     IN  /\ recv' = recv \o SubSeq(out, 1, amt)
         /\ cons' = [pc |-> "r_store", r |-> r, amt |-> amt]
  /\ UNCHANGED nonRbVars /\ UNCHANGED <<m_buf, m_read_index, m_write_index, rb_op, prod, sent,
                 consumed>>

\* read(): m_read_index.store()
C_ReadStore ==
  /\ cons.pc = "r_store"
  /\ m_read_index' = (cons.r + cons.amt) % m_capacity
  /\ consumed' = consumed + cons.amt
  /\ cons' = Idle
  /\ UNCHANGED nonRbVars /\ UNCHANGED <<m_buf, m_write_index, rb_op, prod, sent, recv>>

\* read_contig(): m_write_index.load()
C_ReadContig ==
  /\ cons.pc = "idle"
  /\ \E sz \in 1..m_capacity :
       cons' = [pc |-> "rc_take", sz |-> sz, w |-> m_write_index]
  /\ UNCHANGED nonRbVars /\ UNCHANGED <<m_buf, m_read_index, m_write_index, rb_op, prod, sent,
                 consumed, recv>>

\* read_contig(): m_read_index.load() and the result; the caller then reads
\* n <= out_sz bytes through the returned pointer
C_Take ==
  /\ cons.pc = "rc_take"
  /\ LET res == read_contig(cons.w, m_read_index, cons.sz, FALSE)
     IN  \E n \in 0..res.sz :
           /\ recv' = recv \o [i \in 1..n |-> m_buf[res.ptr + i - 1]]
           /\ cons' = [pc |-> "rc_commit", n |-> n]
  /\ UNCHANGED nonRbVars /\ UNCHANGED <<m_buf, m_read_index, m_write_index, rb_op, prod, sent,
                 consumed>>

\* commit_read(n)
C_CommitRead ==
  /\ cons.pc = "rc_commit"
  /\ m_read_index' = commit_read(m_read_index, cons.n)
  /\ consumed' = consumed + cons.n
  /\ cons' = Idle
  /\ UNCHANGED nonRbVars /\ UNCHANGED <<m_buf, m_write_index, rb_op, prod, sent, recv>>

NextSPSC ==
  \/ P_Write \/ P_WriteLoadR \/ P_WriteCopy \/ P_WriteStore
  \/ P_Alloc \/ P_AllocLoadR \/ P_Fill \/ P_Commit
  \/ P_Compound \/ P_CompoundLoadR \/ P_CompoundFill \/ P_AllocAgain
  \/ C_Read \/ C_ReadCopy \/ C_ReadStore
  \/ C_ReadContig \/ C_Take \/ C_CommitRead

\* C1: with one producer and one consumer, under every interleaving of
\* their index loads, copies and index stores, the bytes the consumer
\* obtains are the bytes 0, 1, 2, ... the producer committed, in order, and
\* the bytes between the two indices are exactly the committed bytes that
\* were not yet read (none lost, duplicated or overwritten).
C1_Integrity ==
  /\ recv = [i \in 1..Len(recv) |-> i - 1]
  /\ Len(recv) <= sent
  /\ consumed <= sent
  /\ Contents(m_buf, m_write_index, m_read_index)
       = [i \in 1..(sent - consumed) |-> consumed + i - 1]

\* All bytes were sent and received, and the write index wrapped around.
C1_Witness ==
  /\ sent = MaxBytes
  /\ Len(recv) = MaxBytes
  /\ consumed = MaxBytes

\* C20 as amended: the contiguous region alloc_contig can hand out on a
\* buffer of capacity C is, when write_index >= read_index,
\* (C - 1) - write_index bytes plus one extra byte if read_index > 0, and
\* otherwise read_index - write_index - 1 bytes; a request larger than this
\* is reduced to exactly this size, a request that fits is left as it is,
\* and the pointer returned is the one at write_index.
C20_ContigRegion ==
  [][(prod.pc = "a_load_r" /\ prod'.pc = "a_fill") =>
       LET w == prod.w
           r == m_read_index
           region == IF w >= r
                       THEN ((Capacity - 1) - w) + (IF r > 0 THEN 1 ELSE 0)
                       ELSE r - w - 1
       IN  /\ prod'.sz = Min(prod.sz, region)
           /\ prod'.ptr = w]_vars

\* C20 as stated: the region is C - write_index bytes plus one extra byte if
\* read_index > 0 when write_index >= read_index.
C20_RegionToCapacity ==
  [][(prod.pc = "a_load_r" /\ prod'.pc = "a_fill") =>
       LET w == prod.w
           r == m_read_index
           region == IF w >= r
                       THEN (Capacity - w) + (IF r > 0 THEN 1 ELSE 0)
                       ELSE r - w - 1
       IN  prod'.sz = Min(prod.sz, region)]_vars

\* alloc_contig handed out the region up to the end of the buffer, the last
\* slot included, while the read index was past slot 0.
C20_Witness ==
  /\ prod.pc = "a_fill"
  /\ m_read_index > 0
  /\ prod.ptr >= m_read_index
  /\ prod.ptr < m_writable_capacity
  /\ prod.sz = m_capacity - prod.ptr

\* C21: while the producer holds the pointer p and size s alloc_contig
\* returned, [p, p + s) starts at the write index, lies inside the buffer,
\* holds none of the bytes the consumer has not read yet, and s is at most
\* the free space; commit_write of any n <= s leaves the write index in
\* [0, capacity) and the buffer then holds the n bytes more (a buffer that
\* holds bytes never has equal indices).
C21_AllocRange ==
  [][/\ prod'.pc = "a_fill" =>
          LET p == prod'.ptr
              s == prod'.sz
              unread == {(m_read_index' + j) % m_capacity :
                           j \in 0..(Stored' - 1)}
          IN  /\ p = m_write_index'
              /\ p >= 0 /\ p + s <= m_capacity
              /\ (p..(p + s - 1)) \cap unread = {}
              /\ s <= m_writable_capacity - Stored'
     /\ (prod.pc = "a_commit" /\ prod'.pc = "idle") =>
          /\ m_write_index' \in 0..(m_capacity - 1)
          /\ Stored' = Stored + prod.n
          /\ (Stored + prod.n > 0 => m_write_index' # m_read_index')]_vars

\* The producer is about to commit bytes that fill the buffer up to its last
\* slot while unread bytes are stored, so the write index wraps to slot 0.
C21_Witness ==
  /\ prod.pc = "a_commit"
  /\ prod.n > 0
  /\ m_write_index + prod.n = m_capacity
  /\ Stored > 0

\* C22: when alloc_contig reduces the request, end_of_buffer is true exactly
\* when no reading by the consumer can enlarge the contiguous region at the
\* write index, and false exactly when the consumer reading some of the
\* stored bytes enlarges it.
C22_EndOfBufferMeansFinal ==
  [][(prod.pc = "a_load_r" /\ prod'.pc = "a_fill" /\ prod'.sz < prod.sz) =>
       LET w == prod.w
           r == m_read_index
           canEnlarge ==
             \E k \in 1..Occupancy(w, r) :
               largest_contiguous_block_size(w, (r + k) % m_capacity)
                 > prod'.sz
       IN  prod'.end_of_buffer = ~canEnlarge]_vars

\* C23: the two segments compound_alloc_contig returns add up to exactly the
\* free space (writable capacity minus stored bytes) at the call; the first
\* starts at the write index and ends inside the buffer, the second starts
\* at slot 0 and is non-empty only when write_index >= read_index; while the
\* producer holds them neither contains an unread byte; and the asserted
\* condition (first segment <= free space) is true.
C23_CompoundSegments ==
  [][/\ (prod.pc = "c_load_r" /\ prod'.pc = "c_fill") =>
          LET rv == prod'.rval
          IN  /\ rv.first_buf_sz + rv.second_buf_sz
                   = m_writable_capacity - Stored
              /\ rv.first_buf_sz > 0 =>
                   /\ rv.first_buf = m_write_index
                   /\ rv.first_buf + rv.first_buf_sz <= m_capacity
              /\ rv.second_buf_sz > 0 =>
                   /\ rv.second_buf = 0
                   /\ m_write_index >= m_read_index
              /\ rv.assertion
     /\ prod'.pc = "c_fill" =>
          LET rv == prod'.rval
              unread == {(m_read_index' + j) % m_capacity :
                           j \in 0..(Stored' - 1)}
          IN  /\ (rv.first_buf..(rv.first_buf + rv.first_buf_sz - 1))
                   \cap unread = {}
              /\ (rv.second_buf..(rv.second_buf + rv.second_buf_sz - 1))
                   \cap unread = {}]_vars

\* compound_alloc_contig returned two non-empty segments.
C23_Witness ==
  /\ prod.pc = "c_fill"
  /\ prod.rval.first_buf_sz > 0
  /\ prod.rval.second_buf_sz > 0

\* Frame of the three zero-copy calls, and of the producer towards the
\* consumer: a step of alloc_contig, compound_alloc_contig or read_contig
\* changes neither index nor the buffer, and a step of the producer leaves
\* the committed bytes the consumer has not read where they are, in order.
ContigFrame ==
  /\ (prod' # prod /\ prod'.pc \in {"a_load_r", "a_fill", "c_load_r", "c_fill"})
       => UNCHANGED <<m_buf, m_read_index, m_write_index>>
  /\ (cons' # cons /\ cons'.pc \in {"rc_take", "rc_commit"})
       => UNCHANGED <<m_buf, m_read_index, m_write_index>>
  /\ prod' # prod =>
       /\ Stored' >= Stored
       /\ SubSeq(Contents(m_buf', m_write_index', m_read_index'), 1, Stored)
            = Contents(m_buf, m_write_index, m_read_index)

\* C24 as amended: the three calls change neither index nor any stored byte;
\* a call repeated without a commit on the same side returns the same
\* pointer and a size that is never smaller, the same size when the other
\* side committed nothing in between (a commit of the other side can enlarge
\* it); and the producer's alloc/commit leaves the committed unread bytes
\* the consumer observes as they were.
C24_ContigCallsFrame ==
  [][/\ ContigFrame
     /\ (prod.pc = "a_fill" /\ prod'.pc = "a_fill") =>
          /\ prod'.ptr = prod.ptr
          /\ prod'.sz >= prod.sz
          /\ prod'.r = prod.r => prod'.sz = prod.sz
     /\ m_write_index' = m_write_index =>
          LET a == compound_alloc_contig(m_write_index, m_read_index)
              b == compound_alloc_contig(m_write_index', m_read_index')
          IN  /\ b.first_buf_sz >= a.first_buf_sz
              /\ b.second_buf_sz >= a.second_buf_sz
              /\ a.first_buf_sz > 0 => b.first_buf = a.first_buf
              /\ a.second_buf_sz > 0 => b.second_buf = a.second_buf
              /\ m_read_index' = m_read_index => b = a
     /\ m_read_index' = m_read_index =>
          \A n \in 1..m_capacity :
            LET a == read_contig(m_write_index, m_read_index, n, FALSE)
                b == read_contig(m_write_index', m_read_index', n, FALSE)
            IN  /\ b.ptr = a.ptr
                /\ b.sz >= a.sz
                /\ m_write_index' = m_write_index => b.sz = a.sz]_vars

\* C24 as stated: a call repeated without a commit on the same side returns
\* the same pointer and the same size each time.
C24_RepeatedCallSameSize ==
  [][/\ ContigFrame
     /\ (prod.pc = "a_fill" /\ prod'.pc = "a_fill") =>
          /\ prod'.ptr = prod.ptr
          /\ prod'.sz = prod.sz
     /\ m_write_index' = m_write_index =>
          LET a == compound_alloc_contig(m_write_index, m_read_index)
              b == compound_alloc_contig(m_write_index', m_read_index')
          IN  /\ b.first_buf_sz = a.first_buf_sz
              /\ b.second_buf_sz = a.second_buf_sz
     /\ m_read_index' = m_read_index =>
          \A n \in 1..m_capacity :
            LET a == read_contig(m_write_index, m_read_index, n, FALSE)
                b == read_contig(m_write_index', m_read_index', n, FALSE)
            IN  b.ptr = a.ptr /\ b.sz = a.sz]_vars

\* alloc_contig was called again before commit_write, after the consumer
\* had committed a read, and returned more than the first call.
C24_Witness ==
  /\ prod.pc = "a_fill"
  /\ prod.r = m_read_index
  /\ prod.req > prod.sz
  /\ consumed > 0
  /\ prod.sz > largest_contiguous_block_size(prod.ptr, 0)

(***************************************************************************)
(* unordered_map                                                           *)
(***************************************************************************)

\* Number of distinct keys and values the callers use.
NumKeys == 3
NumVals == 2

\* number_of_keys_to_transfer in perform_partial_transfer is 512; the model
\* scales the budget down so that a transfer spans several calls.
TransferBudget == 1

\* Table::Table raises initial_power_of_2 to at least 4 (17 buckets); the
\* model scales this floor down.
MinPowerOf2 == 1

\* max_load_factor * 100, the constructor's argument (0.5 here).
LoadFactorPercent == 50

\* the same for a map constructed with a lower max_load_factor (0.25)
LowLoadFactorPercent == 25

\* The calls of the model stop short of a table of a higher power of two
\* (the code goes on to power 31).
MaxPowerOf2 == 3

\* The allocator fails at most this many times in a run.
MaxOom == 1

Keys == 0..(NumKeys - 1)
Vals == 1..NumVals
Addrs == 1..NumKeys
NULL == 0
Free == 0

\* power_of_two_primes[0..30]; the entry of index 31, 2147483659, is beyond
\* the integers of the model checker and no table of the model gets there.
power_of_two_primes ==
  <<2, 2, 5, 11, 17, 37, 67, 131, 257, 521, 1031, 2053, 4099, 8209, 16411,
    32771, 65537, 131101, 262147, 524309, 1048583, 2097169, 4194319,
    8388617, 16777259, 33554467, 67108879, 134217757, 268435459, 536870923,
    1073741827>>

get_prime_power_of_2(n) == IF n >= 32 THEN 0 ELSE power_of_two_primes[n + 1]

\* ---- rtl::hash<uint8_t>: 32-bit FNV-1a over the bytes of the key, kept
\* as two 16-bit limbs <<hi, lo>> ----

RECURSIVE Xor(_, _)
Xor(a, b) ==
  IF a = 0 THEN b
  ELSE IF b = 0 THEN a
  ELSE (((a % 2) + (b % 2)) % 2) + 2 * Xor(a \div 2, b \div 2)

\* FNV1A_32_OFFSET = 2166136261 = 0x811C9DC5
FNV1A_32_OFFSET == <<33052, 40389>>

\* one round: rval = (rval ^ byte) * FNV1A_32_PRIME, with
\* FNV1A_32_PRIME = 16777619 = 256 * 65536 + 403, modulo 2^32
fnv1a_round(rval, byte) ==
  LET hi == rval[1]
      lo == Xor(rval[2], byte)
      pl == lo * 403
  IN  <<((pl \div 65536) + hi * 403 + lo * 256) % 65536, pl % 65536>>

m_hasher(key) == fnv1a_round(FNV1A_32_OFFSET, key)

\* m_hasher(key) % m_num_buckets
get_bucket_index(num_buckets, key) ==
  LET h == m_hasher(key)
  IN  ((h[1] % num_buckets) * (65536 % num_buckets) + h[2]) % num_buckets

\* ---- Entry ----

Entry(key) == [key |-> key, val |-> NULL]

\* Allocator: the lowest free address.
Allocate(hp) == CHOOSE a \in Addrs : hp[a] = Free /\
                   \A b \in Addrs : hp[b] = Free => a <= b

\* a move that releases the value object it hands over
Entry_move_assign_release(dst, src, hp) ==
  [dst |-> [key |-> src.key, val |-> src.val],
   src |-> [key |-> src.key, val |-> NULL],
   heap |-> IF src.val = NULL THEN hp ELSE [hp EXCEPT ![src.val] = Free]]

\* Entry::operator=(Entry&&): the destination takes the key and the owning
\* pointer, the source is left with a null pointer.
\* a move that leaves the source its value
Entry_move_assign_copy(dst, src, hp) ==
  [dst |-> [key |-> src.key, val |-> src.val],
   src |-> src,
   heap |-> hp]

Entry_move_assign(dst, src, hp) ==
  [dst |-> [key |-> src.key, val |-> src.val],
   src |-> [key |-> src.key, val |-> NULL],
   heap |-> hp]

\* Entry::construct(alloc, val)
construct(e, val, oom, hp) ==
  IF e.val # NULL
    THEN [ok |-> TRUE, e |-> e, heap |-> [hp EXCEPT ![e.val] = val]]
  ELSE IF "value" \in oom \/ \A a \in Addrs : hp[a] # Free
    THEN [ok |-> FALSE, e |-> e, heap |-> hp]
  ELSE LET tmp == Allocate(hp)
       IN  [ok |-> TRUE, e |-> [e EXCEPT !.val = tmp],
            heap |-> [hp EXCEPT ![tmp] = val]]

\* Entry::deconstruct(alloc): the heap after it
deconstruct(e, hp) ==
  IF e.val = NULL THEN hp ELSE [hp EXCEPT ![e.val] = Free]

\* ---- Bucket: [entries: the vector of entries, cap: its capacity] ----

EmptyBucket == [entries |-> <<>>, cap |-> 0]

\* index of the first entry with this key, 0 when there is none
bucket_find(b, key) ==
  IF \E i \in 1..Len(b.entries) : b.entries[i].key = key
    THEN CHOOSE i \in 1..Len(b.entries) :
           /\ b.entries[i].key = key
           /\ \A j \in 1..(i - 1) : b.entries[j].key # key
    ELSE 0

\* Bucket::get
bucket_get(b, key) ==
  LET i == bucket_find(b, key)
  IN  IF i = 0 THEN NULL ELSE b.entries[i].val

\* vector::remove_fast(index): swap with the back, then pop_back
remove_fast(entries, index) ==
  IF index < 1 \/ index > Len(entries) THEN entries
  ELSE [i \in 1..(Len(entries) - 1) |->
          IF i = index THEN entries[Len(entries)] ELSE entries[i]]

\* Bucket::bucket_remove(e, alloc)
bucket_remove(b, key, hp) ==
  LET i == bucket_find(b, key)
  IN  IF i = 0 THEN [ret |-> FALSE, b |-> b, heap |-> hp]
      ELSE [ret |-> TRUE,
            b |-> [b EXCEPT !.entries = remove_fast(b.entries, i)],
            heap |-> deconstruct(b.entries[i], hp)]

\* Bucket::bucket_get_or_create_entry: created_count is -1 when the vector
\* could not grow; idx is the position of the entry.
bucket_get_or_create_entry(b, key, oom) ==
  LET i == bucket_find(b, key)
      n == Len(b.entries)
  IN  IF i # 0 THEN [created_count |-> 0, idx |-> i, b |-> b]
      ELSE IF n = b.cap /\ "entry" \in oom
        THEN [created_count |-> -1, idx |-> 0, b |-> b]
      ELSE [created_count |-> 1, idx |-> n + 1,
            b |-> [entries |-> Append(b.entries, Entry(key)),
                   cap |-> IF n < b.cap THEN b.cap
                           ELSE IF b.cap = 0 THEN 1 ELSE 2 * b.cap]]

\* ---- Table: [buckets, total_entries, power] ----

\* Table::Table(alloc, initial_power_of_2) when every bucket is allocated
Table(initial_power_of_2) ==
  LET p0 == IF initial_power_of_2 >= 32 THEN 31 ELSE initial_power_of_2
      p  == IF p0 < MinPowerOf2 THEN MinPowerOf2 ELSE p0
  IN  [buckets |-> [i \in 1..get_prime_power_of_2(p) |-> EmptyBucket],
       total_entries |-> 0,
       power |-> p]

\* the value of m_secondary while it is nullptr
NoTable == [buckets |-> <<>>, total_entries |-> 0, power |-> 0]

get_num_buckets(t) == Len(t.buckets)

\* position of the key's bucket in t.buckets
BucketOf(t, key) == get_bucket_index(get_num_buckets(t), key) + 1

\* Table::get
table_get(t, key) ==
  IF get_num_buckets(t) = 0 THEN NULL
  ELSE bucket_get(t.buckets[BucketOf(t, key)], key)

\* Table::table_get_entry: the position of the entry in its bucket, or 0
table_get_entry(t, key) ==
  IF get_num_buckets(t) = 0 THEN 0
  ELSE bucket_find(t.buckets[BucketOf(t, key)], key)

\* Table::table_get_or_create_entry
table_get_or_create_entry(t, key, oom) ==
  IF get_num_buckets(t) = 0
    THEN [entry |-> 0, bucket |-> 0, created |-> FALSE, t |-> t]
  ELSE LET bi == BucketOf(t, key)
           res == bucket_get_or_create_entry(t.buckets[bi], key, oom)
       IN  [entry |-> res.idx, bucket |-> bi,
            created |-> res.created_count > 0,
            t |-> [t EXCEPT !.buckets[bi] = res.b,
                            !.total_entries =
                               IF res.created_count > 0 THEN @ + 1 ELSE @]]

\* Table::del
table_del(t, key, hp) ==
  IF get_num_buckets(t) = 0 THEN [ret |-> FALSE, t |-> t, heap |-> hp]
  ELSE LET bi == BucketOf(t, key)
           res == bucket_remove(t.buckets[bi], key, hp)
       IN  [ret |-> res.ret,
            t |-> [t EXCEPT !.buckets[bi] = res.b,
                            !.total_entries = IF res.ret THEN @ - 1 ELSE @],
            heap |-> res.heap]

\* Table::table_delete_all_entries
table_delete_all_entries(t, hp) ==
  LET vals == UNION {{t.buckets[i].entries[j].val :
                        j \in 1..Len(t.buckets[i].entries)} :
                      i \in 1..Len(t.buckets)} \ {NULL}
  IN  [t |-> [t EXCEPT !.buckets =
                 [i \in 1..Len(t.buckets) |->
                    [t.buckets[i] EXCEPT !.entries = <<>>]],
               !.total_entries = 0],
       heap |-> [a \in Addrs |-> IF a \in vals THEN Free ELSE hp[a]]]

\* ---- the map: M = [main, secondary, state, cursor, locked,
\* max_load_factor_percent, heap] ----
\* cursor is m_current_bucket_to_transfer; oom is the set of the kinds of
\* allocation ("entry": growing a bucket's vector, "value": a value object,
\* "table": a table or its buckets) that fail during the call.

OomChoices == {{}, {"entry"}, {"value"}, {"table"}}

ThisMap ==
  [main |-> m_main, secondary |-> m_secondary, state |-> m_state,
   cursor |-> m_current_bucket_to_transfer, locked |-> m_locked,
   max_load_factor_percent |-> m_max_load_factor_percent,
   heap |-> heap]

\* a should_resize that does not look at the latch
should_resize_unlocked(M) ==
  LET main_buckets == get_num_buckets(M.main)
      main_key_count == M.main.total_entries
      max_key_count ==
        (M.max_load_factor_percent * main_buckets) \div 100
  IN  main_key_count >= max_key_count

should_resize(M) ==
  IF M.locked THEN FALSE
  ELSE LET main_buckets == get_num_buckets(M.main)
           main_key_count == M.main.total_entries
           max_key_count ==
             (M.max_load_factor_percent * main_buckets) \div 100
       IN  main_key_count >= max_key_count

\* begin_resize: the new table is complete unless an allocation failed
begin_resize(M, new_power_of_2, oom) ==
  IF "table" \in oom
    THEN [ok |-> FALSE, M |-> M]
  ELSE LET sec == Table(new_power_of_2)
       IN  IF get_prime_power_of_2(new_power_of_2) # get_num_buckets(sec)
             THEN [ok |-> FALSE, M |-> M]
             ELSE [ok |-> TRUE,
                   M |-> [M EXCEPT !.secondary = sec, !.state = "TRANSFER",
                                   !.cursor = 0]]

is_transfer_complete(M) == M.main.total_entries = 0

end_resize(M) ==
  [M EXCEPT !.main = M.secondary, !.secondary = NoTable,!.state = "STABLE",
            !.cursor = 0]

\* perform_partial_transfer, with number_of_keys_to_transfer keys left
RECURSIVE partial_transfer_loop(_, _, _)
partial_transfer_loop(M, number_of_keys_to_transfer, oom) ==
  IF M.cursor >= get_num_buckets(M.main) THEN [ok |-> TRUE, M |-> M]
  ELSE
    LET bi == M.cursor + 1
        bucket == M.main.buckets[bi]
    IN  IF Len(bucket.entries) = 0
          THEN Only({partial_transfer_loop(m, number_of_keys_to_transfer,
                                           oom) :
                     m \in {[M EXCEPT !.cursor = @ + 1]}})
        ELSE IF number_of_keys_to_transfer <= 0 THEN [ok |-> TRUE, M |-> M]
        ELSE
          LET e == bucket.entries[Len(bucket.entries)]
              res == table_get_or_create_entry(M.secondary, e.key, oom)
          IN  IF res.entry = 0 \/ res.bucket = 0
                THEN [ok |-> FALSE, M |-> M]
              ELSE
                LET mv == Entry_move_assign(
                            res.t.buckets[res.bucket].entries[res.entry],
                            e, M.heap)
                    sec == IF res.created
                             THEN [res.t EXCEPT
                                     !.buckets[res.bucket].entries[res.entry]
                                        = mv.dst]
                             ELSE res.t
                    hp == IF res.created THEN mv.heap ELSE M.heap
                    main == [M.main EXCEPT
                               !.buckets[bi].entries =
                                  SubSeq(@, 1, Len(@) - 1),
                               !.total_entries = @ - 1]
                IN  Only({partial_transfer_loop(
                            m, number_of_keys_to_transfer - 1, oom) :
                          m \in {[M EXCEPT !.main = main, !.secondary = sec,
                                           !.heap = hp]}})

\* a partial transfer with a budget of one key more
perform_partial_transfer_oneMore(M, oom) ==
  partial_transfer_loop(M, TransferBudget + 1, oom)

perform_partial_transfer(M, oom) ==
  partial_transfer_loop(M, TransferBudget, oom)

\* after a partial transfer of get, put and del
after_partial_transfer(M, oom, rval, failed) ==
  Only({IF ~pt.ok THEN [ret |-> failed, M |-> [pt.M EXCEPT !.state = "ERROR"]]
        ELSE IF is_transfer_complete(pt.M)
          THEN [ret |-> rval, M |-> end_resize(pt.M)]
          ELSE [ret |-> rval, M |-> pt.M] :
        pt \in {perform_partial_transfer(M, oom)}})

\* the resize check that ends get, put and del in STABLE
after_stable(M, oom, rval, failed) ==
  IF should_resize(M)
    THEN LET br == begin_resize(M, M.main.power + 1, oom)
         IN  IF ~br.ok
               THEN [ret |-> failed, M |-> [br.M EXCEPT !.state = "ERROR"]]
               ELSE [ret |-> rval, M |-> br.M]
    ELSE [ret |-> rval, M |-> M]

\* T* get(key): ret is the pointer
\* a get that looks the key up although the map is in ERROR
get_noLatch(M, key, oom) ==
  CASE M.state = "ERROR" -> [ret |-> table_get(M.main, key), M |-> M]
    [] M.state = "STABLE" ->
         after_stable(M, oom, table_get(M.main, key), NULL)
    [] M.state = "TRANSFER" ->
         LET r1 == table_get(M.secondary, key)
             rval == IF r1 = NULL THEN table_get(M.main, key) ELSE r1
         IN  after_partial_transfer(M, oom, rval, NULL)

get(M, key, oom) ==
  CASE M.state = "ERROR" -> [ret |-> NULL, M |-> M]
    [] M.state = "STABLE" ->
         after_stable(M, oom, table_get(M.main, key), NULL)
    [] M.state = "TRANSFER" ->
         LET r1 == table_get(M.secondary, key)
             rval == IF r1 = NULL THEN table_get(M.main, key) ELSE r1
         IN  after_partial_transfer(M, oom, rval, NULL)

\* bool contains(key)
contains(M, key) ==
  CASE M.state = "ERROR" -> FALSE
    [] M.state = "STABLE" -> table_get(M.main, key) # NULL
    [] M.state = "TRANSFER" ->
         LET r1 == table_get(M.secondary, key)
             rval == IF r1 = NULL THEN table_get(M.main, key) ELSE r1
         IN  rval # NULL

\* the STABLE branch of put up to the resize check
put_stable(M, key, val, oom) ==
  LET res == table_get_or_create_entry(M.main, key, oom)
  IN  IF res.entry = 0 \/ res.bucket = 0 THEN [rval |-> FALSE, M |-> M]
      ELSE
        LET c == construct(res.t.buckets[res.bucket].entries[res.entry],
                           val, oom, M.heap)
        IN  IF ~c.ok
              THEN IF res.created
                     THEN LET rm == bucket_remove(res.t.buckets[res.bucket],
                                                  key, c.heap)
                          IN  [rval |-> FALSE,
                               M |-> [M EXCEPT
                                        !.main = [res.t EXCEPT
                                                    !.buckets[res.bucket]
                                                       = rm.b],
                                        !.heap = rm.heap]]
                     ELSE [rval |-> FALSE, M |-> [M EXCEPT !.main = res.t]]
              ELSE [rval |-> TRUE,
                    M |-> [M EXCEPT
                             !.main = [res.t EXCEPT
                                         !.buckets[res.bucket]
                                            .entries[res.entry] = c.e],
                             !.heap = c.heap]]

\* the TRANSFER branch of put up to the partial transfer
put_transfer(M, key, val, oom) ==
  LET res == table_get_or_create_entry(M.secondary, key, oom)
  IN  IF res.entry = 0 \/ res.bucket = 0 THEN [rval |-> FALSE, M |-> M]
      ELSE
        LET mi == table_get_entry(M.main, key)
            mb == BucketOf(M.main, key)
            seed == res.created /\ mi # 0
            mv == Entry_move_assign(
                    res.t.buckets[res.bucket].entries[res.entry],
                    IF seed THEN M.main.buckets[mb].entries[mi]
                            ELSE Entry(key),
                    M.heap)
            main1 == IF seed
                       THEN [M.main EXCEPT !.buckets[mb].entries[mi] = mv.src]
                       ELSE M.main
            e1 == IF seed THEN mv.dst
                  ELSE res.t.buckets[res.bucket].entries[res.entry]
            hp1 == IF seed THEN mv.heap ELSE M.heap
            c == construct(e1, val, oom, hp1)
        IN  IF ~c.ok
              THEN IF res.created
                     THEN LET b0 == [res.t.buckets[res.bucket] EXCEPT
                                       !.entries[res.entry].val = NULL]
                              rm == bucket_remove(b0, key, c.heap)
                          IN  [rval |-> FALSE,
                               M |-> [M EXCEPT
                                        !.main = main1,
                                        !.secondary =
                                           [res.t EXCEPT
                                              !.buckets[res.bucket] = rm.b],
                                        !.heap = rm.heap]]
                     ELSE [rval |-> FALSE,
                           M |-> [M EXCEPT !.secondary = res.t]]
              ELSE [rval |-> TRUE,
                    M |-> [M EXCEPT
                             !.main = main1,
                             !.secondary =
                                [res.t EXCEPT
                                   !.buckets[res.bucket].entries[res.entry]
                                      = c.e],
                             !.heap = c.heap]]

\* bool put(key, val)
put(M, key, val, oom) ==
  CASE M.state = "ERROR" -> [ret |-> FALSE, M |-> M]
    [] M.state = "STABLE" ->
         Only({after_stable(p.M, oom, p.rval, FALSE) :
               p \in {put_stable(M, key, val, oom)}})
    [] M.state = "TRANSFER" ->
         Only({after_partial_transfer(p.M, oom, p.rval, FALSE) :
               p \in {put_transfer(M, key, val, oom)}})

\* the TRANSFER branch of del up to the partial transfer
del_transfer(M, key) ==
  LET d1 == table_del(M.main, key, M.heap)
      d2 == table_del(M.secondary, key, M.heap)
  IN  IF d1.ret
        THEN [rval |-> TRUE, M |-> [M EXCEPT !.main = d1.t, !.heap = d1.heap]]
        ELSE [rval |-> d2.ret,
              M |-> [M EXCEPT !.secondary = d2.t, !.heap = d2.heap]]

\* bool del(key)
del(M, key, oom) ==
  CASE M.state = "ERROR" -> [ret |-> FALSE, M |-> M]
    [] M.state = "STABLE" ->
         Only({after_stable([M EXCEPT !.main = d.t, !.heap = d.heap], oom,
                            d.ret, FALSE) :
               d \in {table_del(M.main, key, M.heap)}})
    [] M.state = "TRANSFER" ->
         Only({after_partial_transfer(d.M, oom, d.rval, FALSE) :
               d \in {del_transfer(M, key)}})

\* bool finalize(): the loop of partial transfers; a pass that moves nothing
\* while main still counts entries repeats for ever (diverges).
RECURSIVE finalize_loop(_, _)
finalize_loop(M, oom) ==
  IF is_transfer_complete(M)
    THEN [ret |-> TRUE, M |-> end_resize(M), diverges |-> FALSE]
  ELSE Only({IF ~pt.ok THEN [ret |-> FALSE, M |-> pt.M, diverges |-> FALSE]
             ELSE IF pt.M = M
               THEN [ret |-> FALSE, M |-> M, diverges |-> TRUE]
             ELSE finalize_loop(pt.M, oom) :
             pt \in {perform_partial_transfer(M, oom)}})

finalize(M, oom) ==
  CASE M.state = "ERROR" -> [ret |-> FALSE, M |-> M, diverges |-> FALSE]
    [] M.state = "STABLE" -> [ret |-> TRUE, M |-> M, diverges |-> FALSE]
    [] M.state = "TRANSFER" -> finalize_loop(M, oom)

\* the index of the first prime of the table that exceeds number_of_buckets
reserve_power_strict(number_of_buckets) ==
  LET fit == {i \in 0..30 : get_prime_power_of_2(i) > number_of_buckets}
  IN  IF fit = {} THEN 250
      ELSE CHOOSE i \in fit : \A j \in fit : i <= j

\* reserve: the index of the first prime of the table that is at least
\* number_of_buckets, 250 when there is none
reserve_power(number_of_buckets) ==
  LET fit == {i \in 0..30 : get_prime_power_of_2(i) >= number_of_buckets}
  IN  IF fit = {} THEN 250
      ELSE CHOOSE i \in fit : \A j \in fit : i <= j

\* bool reserve(number_of_buckets)
reserve(M, number_of_buckets, oom) ==
  IF M.state = "ERROR" \/ number_of_buckets = 0
       \/ reserve_power(number_of_buckets) = 250
    THEN [ret |-> FALSE, M |-> M, diverges |-> FALSE]
  ELSE
    Only({IF ~f.ret THEN f
          ELSE IF reserve_power(number_of_buckets) <= f.M.main.power
            THEN [ret |-> TRUE, M |-> f.M, diverges |-> FALSE]
          ELSE Only({IF ~br.ok
                       THEN [ret |-> FALSE,
                             M |-> [br.M EXCEPT !.state = "ERROR"],
                             diverges |-> FALSE]
                       ELSE finalize_loop(br.M, oom) :
                     br \in {begin_resize(
                               f.M, reserve_power(number_of_buckets),
                               oom)}}) :
          f \in {IF M.state = "TRANSFER" THEN finalize_loop(M, oom)
                 ELSE [ret |-> TRUE, M |-> M, diverges |-> FALSE]}})

\* size_t unordered_map::get_num_buckets()
unordered_map_get_num_buckets(M) ==
  CASE M.state = "ERROR" -> 0
    [] M.state = "STABLE" -> get_num_buckets(M.main)
    [] M.state = "TRANSFER" -> get_num_buckets(M.secondary)

\* a delete_all_keys that leaves the entries of the secondary table
delete_all_keys_mainOnly(M, oom) ==
  CASE M.state = "ERROR" -> M
    [] M.state = "STABLE" ->
         LET d == table_delete_all_entries(M.main, M.heap)
         IN  [M EXCEPT !.main = d.t, !.heap = d.heap]
    [] M.state = "TRANSFER" ->
         Only({finalize([M EXCEPT !.main = d1.t, !.heap = d1.heap], oom).M :
               d1 \in {table_delete_all_entries(M.main, M.heap)}})

\* void delete_all_keys()
delete_all_keys(M, oom) ==
  CASE M.state = "ERROR" -> M
    [] M.state = "STABLE" ->
         LET d == table_delete_all_entries(M.main, M.heap)
         IN  [M EXCEPT !.main = d.t, !.heap = d.heap]
    [] M.state = "TRANSFER" ->
         Only({Only({finalize([M EXCEPT !.main = d1.t, !.secondary = d2.t,
                                        !.heap = d2.heap], oom).M :
                     d2 \in {table_delete_all_entries(M.secondary,
                                                      d1.heap)}}) :
               d1 \in {table_delete_all_entries(M.main, M.heap)}})

\* the tables of the map stay within the model's sizes
Bounded(M) == M.state = "TRANSFER" => M.secondary.power <= MaxPowerOf2

\* no pointer is held
NoPtr == [key |-> 0, ptr |-> NULL]

\* unordered_map(alloc, max_load_factor) when the allocation of the main
\* table succeeds; Table's default initial_power_of_2 is its floor
unordered_map(max_load_factor_percent) ==
  /\ m_main = Table(MinPowerOf2)
  /\ m_secondary = NoTable
  /\ m_state = "STABLE"
  /\ m_current_bucket_to_transfer = 0
  /\ m_locked = FALSE
  /\ m_max_load_factor_percent = max_load_factor_percent
  /\ heap = [a \in Addrs |-> Free]
  /\ oom_count = 0
  /\ ref = [k \in Keys |-> NULL]
  /\ held = NoPtr

InitMap == unordered_map(LoadFactorPercent)

InitMapLowLoad == unordered_map(LowLoadFactorPercent)

SetMap(M) ==
  /\ m_main' = M.main
  /\ m_secondary' = M.secondary
  /\ m_state' = M.state
  /\ m_current_bucket_to_transfer' = M.cursor
  /\ m_locked' = M.locked
  /\ m_max_load_factor_percent' = M.max_load_factor_percent
  /\ heap' = M.heap

\* the value a pointer returned by get designates
Deref(hp, ptr) == IF ptr = NULL THEN NULL ELSE hp[ptr]

\* an injected allocation failure counts when it changed what the call did
Faulted(res, clean) == IF res = clean THEN 0 ELSE 1

Get ==
  \E key \in Keys :
    \E clean \in {get(ThisMap, key, {})} :
    \E oom \in OomChoices, keep \in BOOLEAN :
    \E res \in {IF oom = {} THEN clean ELSE get(ThisMap, key, oom)} :
    \E f \in {Faulted(res, clean)} :
        /\ oom # {} => f = 1
        /\ oom_count + f <= MaxOom
        /\ Bounded(res.M)
        /\ SetMap(res.M)
        /\ oom_count' = oom_count + f
        /\ held' = IF res.ret # NULL /\ ~keep
                     THEN [key |-> key, ptr |-> res.ret]
                     ELSE held
        /\ UNCHANGED <<ref, nonMapVars>>

Put ==
  \E key \in Keys, val \in Vals :
    \E clean \in {put(ThisMap, key, val, {})} :
    \E oom \in OomChoices :
    \E res \in {IF oom = {} THEN clean ELSE put(ThisMap, key, val, oom)} :
    \E f \in {Faulted(res, clean)} :
        /\ oom # {} => f = 1
        /\ oom_count + f <= MaxOom
        /\ Bounded(res.M)
        /\ SetMap(res.M)
        /\ oom_count' = oom_count + f
        /\ ref' = IF res.ret THEN [ref EXCEPT ![key] = val] ELSE ref
        /\ UNCHANGED <<held, nonMapVars>>

Del ==
  \E key \in Keys :
    \E clean \in {del(ThisMap, key, {})} :
    \E oom \in OomChoices :
    \E res \in {IF oom = {} THEN clean ELSE del(ThisMap, key, oom)} :
    \E f \in {Faulted(res, clean)} :
        /\ oom # {} => f = 1
        /\ oom_count + f <= MaxOom
        /\ Bounded(res.M)
        /\ SetMap(res.M)
        /\ oom_count' = oom_count + f
        /\ ref' = [ref EXCEPT ![key] = NULL]
        /\ held' = IF held.key = key THEN NoPtr ELSE held
        /\ UNCHANGED <<nonMapVars>>

\* contains is const: it changes nothing
Contains ==
  \E key \in Keys :
    /\ contains(ThisMap, key) \in BOOLEAN
    /\ UNCHANGED vars

DeleteAllKeys ==
  /\ \E M \in {delete_all_keys(ThisMap, {})} : SetMap(M)
  /\ ref' = IF m_state = "ERROR" THEN ref ELSE [k \in Keys |-> NULL]
  /\ held' = IF m_state = "ERROR" THEN held ELSE NoPtr
  /\ UNCHANGED <<oom_count, nonMapVars>>

NextMap == Get \/ Put \/ Del \/ Contains \/ DeleteAllKeys

\* the number_of_buckets arguments of the callers: 0, and every size of the
\* prime table up to the largest table of the model and the number behind it
ReserveArgs ==
  {0} \cup {get_prime_power_of_2(i) + d : i \in 1..MaxPowerOf2, d \in {0, 1}}

\* a call that never returns is no step
Reserve ==
  \E n \in ReserveArgs :
    \E clean \in {reserve(ThisMap, n, {})} :
    \E oom \in OomChoices :
    \E res \in {IF oom = {} THEN clean ELSE reserve(ThisMap, n, oom)} :
    \E f \in {Faulted(res, clean)} :
        /\ oom # {} => f = 1
        /\ oom_count + f <= MaxOom
        /\ ~res.diverges
        /\ Bounded(res.M)
        /\ res.M.main.power <= MaxPowerOf2
        /\ SetMap(res.M)
        /\ oom_count' = oom_count + f
        /\ UNCHANGED <<ref, held, nonMapVars>>

Finalize ==
  \E clean \in {finalize(ThisMap, {})} :
    \E oom \in OomChoices :
    \E res \in {IF oom = {} THEN clean ELSE finalize(ThisMap, oom)} :
    \E f \in {Faulted(res, clean)} :
        /\ oom # {} => f = 1
        /\ oom_count + f <= MaxOom
        /\ ~res.diverges
        /\ SetMap(res.M)
        /\ oom_count' = oom_count + f
        /\ UNCHANGED <<ref, held, nonMapVars>>

LockTableSize ==
  /\ m_locked' = TRUE
  /\ UNCHANGED <<m_main, m_secondary, m_state, m_current_bucket_to_transfer,
                 m_max_load_factor_percent, heap, oom_count, ref, held,
                 nonMapVars>>

\* a caller that puts, deletes, reserves and finalizes
NextMapReserve == Put \/ Del \/ Reserve \/ Finalize

\* a caller that sets the table size latch and leaves it set, as lru does
NextMapLock == Put \/ Del \/ LockTableSize

\* the entry's value pointer a lookup of the key finds in the tables: the
\* secondary table first while there is one, as get does
Lookup(key) ==
  LET r1 == table_get(m_secondary, key)
  IN  IF r1 = NULL THEN table_get(m_main, key) ELSE r1

\* C10: a pointer returned by get(k) stays valid across later operations
\* and transfers, until k is deleted or the map is cleared: the storage it
\* designates is still allocated and is still the storage of k's value.
C10_PointerStable ==
  held.ptr # NULL => /\ heap[held.ptr] # Free
                     /\ Lookup(held.key) = held.ptr

\* A pointer obtained in one table is still held after its entry was moved
\* to the other table and that transfer ended.
C10_Witness ==
  /\ held.ptr # NULL
  /\ m_state = "STABLE"
  /\ m_main.power > MinPowerOf2 + 1
  /\ table_get(m_main, held.key) = held.ptr

\* C2: while the map is not in ERROR, get(k) returns the value of the most
\* recent put(k) that was not followed by a del(k), and null when there is
\* no such put.
C2_KeyFidelity ==
  m_state # "ERROR" =>
    \A key \in Keys :
      LET res == get(ThisMap, key, {})
      IN  Deref(res.M.heap, res.ret) = ref[key]

\* the entries of a table that carry the key, as <<bucket, position>>
EntriesOf(t, key) ==
  UNION {{<<b, i>> : i \in {j \in DOMAIN t.buckets[b].entries :
                              t.buckets[b].entries[j].key = key}} :
         b \in DOMAIN t.buckets}

\* the value objects the entries of a table own
ValuesOf(t) ==
  UNION {{t.buckets[b].entries[i].val :
            i \in {j \in DOMAIN t.buckets[b].entries :
                     t.buckets[b].entries[j].val # NULL}} :
         b \in DOMAIN t.buckets}

\* C11: between any two map operations a key has at most one entry in each
\* table; a key that has an entry in main and an entry in secondary at the
\* same time has in main an entry that was moved from and owns no value, and
\* no value object is owned by an entry of main and by an entry of secondary.
C11_ShellInMain ==
  /\ \A key \in Keys :
       /\ Cardinality(EntriesOf(m_main, key)) <= 1
       /\ Cardinality(EntriesOf(m_secondary, key)) <= 1
       /\ EntriesOf(m_secondary, key) # {} =>
            \A p \in EntriesOf(m_main, key) :
              m_main.buckets[p[1]].entries[p[2]].val = NULL
  /\ ValuesOf(m_main) \cap ValuesOf(m_secondary) = {}

\* C11 as stated: no key has an entry in a bucket of main and an entry in a
\* bucket of secondary at the same time.
C11_OneTable ==
  \A key \in Keys :
    EntriesOf(m_main, key) = {} \/ EntriesOf(m_secondary, key) = {}

\* A put during a transfer moved the value of a key out of main's entry,
\* which is still in its bucket.
C11_Witness ==
  /\ m_state = "TRANSFER"
  /\ \E key \in Keys :
       /\ EntriesOf(m_main, key) # {}
       /\ table_get(m_secondary, key) # NULL

\* C12: at no point between map operations does a key exist in main and in
\* secondary with two values: of the entries a key has in the two tables, at
\* most one owns a value object.
C12_OneValue ==
  \A key \in Keys :
    table_get(m_main, key) = NULL \/ table_get(m_secondary, key) = NULL

\* A key has an entry in both tables, and the one of secondary owns the
\* value the caller last put.
C12_Witness ==
  \E key \in Keys :
    /\ table_get_entry(m_main, key) # 0
    /\ table_get_entry(m_secondary, key) # 0
    /\ ref[key] # NULL
    /\ Deref(heap, table_get(m_secondary, key)) = ref[key]

\* C13: ERROR is absorbing: once the state is ERROR every get returns null,
\* every put, del, contains, reserve and finalize returns false, and none of
\* these calls moves the map out of ERROR.
C13_ErrorAbsorbing ==
  m_state = "ERROR" =>
    /\ \A key \in Keys, oom \in OomChoices :
         /\ get(ThisMap, key, oom) = [ret |-> NULL, M |-> ThisMap]
         /\ del(ThisMap, key, oom) = [ret |-> FALSE, M |-> ThisMap]
         /\ ~contains(ThisMap, key)
         /\ \A val \in Vals :
              put(ThisMap, key, val, oom) = [ret |-> FALSE, M |-> ThisMap]
    /\ \A oom \in OomChoices :
         /\ ~finalize(ThisMap, oom).ret
         /\ finalize(ThisMap, oom).M = ThisMap
         /\ \A n \in ReserveArgs :
              /\ ~reserve(ThisMap, n, oom).ret
              /\ reserve(ThisMap, n, oom).M = ThisMap

\* The map is in ERROR while a key is still stored in its main table.
C13_Witness ==
  /\ m_state = "ERROR"
  /\ \E key \in Keys : table_get(m_main, key) # NULL

\* C14: whenever reserve(n) returns false because an allocation failed
\* (while completing a transfer in flight, creating the new table, or moving
\* entries into it), the map is in ERROR when reserve returns.
C14_ReserveFailureIsError ==
  \A n \in ReserveArgs, oom \in OomChoices :
    \A res \in {reserve(ThisMap, n, oom)} :
      (res # reserve(ThisMap, n, {}) /\ ~res.ret /\ ~res.diverges)
        => res.M.state = "ERROR"

\* C15: when reserve(n) returns true the map is STABLE, every key keeps its
\* value, and the bucket count is the smallest entry of the prime table that
\* is at least n if that exceeds the bucket count before the call, and is
\* otherwise unchanged; reserve never lowers the bucket count.
C15_ReserveGrows ==
  /\ get_prime_power_of_2(reserve_power(24)) = 37
  /\ get_prime_power_of_2(reserve_power(12)) = 17
  /\ \A n \in ReserveArgs, oom \in OomChoices :
       \A res \in {reserve(ThisMap, n, oom)} :
         (res.ret /\ ~res.diverges) =>
           LET before == unordered_map_get_num_buckets(ThisMap)
               after  == unordered_map_get_num_buckets(res.M)
               primes == {power_of_two_primes[i] :
                            i \in {j \in DOMAIN power_of_two_primes :
                                     power_of_two_primes[j] >= n}}
               wanted == CHOOSE q \in primes : \A r \in primes : q <= r
           IN  /\ res.M.state = "STABLE"
               /\ \A key \in Keys :
                    Deref(res.M.heap, table_get(res.M.main, key))
                      = Deref(heap, Lookup(key))
               /\ after = IF wanted > before THEN wanted ELSE before
               /\ after >= before

\* A map in TRANSFER that holds a value, on which a reserve completes the
\* transfer in flight and moves the entries to a larger table.
C15_Witness ==
  /\ m_state = "TRANSFER"
  /\ \E key \in Keys : Deref(heap, Lookup(key)) # NULL
  /\ \E n \in ReserveArgs :
       \E res \in {reserve(ThisMap, n, {})} :
         /\ res.ret /\ ~res.diverges
         /\ get_num_buckets(res.M.main) > get_num_buckets(m_secondary)

\* C16: whenever a get, put or del that started in STABLE on a map whose
\* table size is not locked returns without an allocation failure, either
\* main holds fewer than floor(load_factor x bucket count) entries and the
\* map is still STABLE, or main holds at least that many and the map is in
\* TRANSFER with a secondary table of the next size in the prime table.
C16_ResizeAtThreshold ==
  (m_state = "STABLE" /\ ~m_locked) =>
    \A key \in Keys, val \in Vals :
      \A M \in {get(ThisMap, key, {}).M, put(ThisMap, key, val, {}).M,
                del(ThisMap, key, {}).M} :
        LET entries == Cardinality(UNION {EntriesOf(M.main, k) : k \in Keys})
            max_key_count ==
              (m_max_load_factor_percent * get_num_buckets(M.main)) \div 100
        IN  \/ /\ M.state = "STABLE"
               /\ entries < max_key_count
            \/ /\ M.state = "TRANSFER"
               /\ entries >= max_key_count
               /\ M.secondary.power = M.main.power + 1

\* C17: while the map is in TRANSFER, for every sequence of put, del and get
\* calls on a map whose table size is never locked, the number of keys held
\* in both tables together divided by the bucket count of the secondary
\* table never exceeds twice the configured load factor.
C17_TransferLoad ==
  m_state = "TRANSFER" =>
    Cardinality({key \in Keys : contains(ThisMap, key)}) * 100
      <= 2 * m_max_load_factor_percent * get_num_buckets(m_secondary)

\* C18: after lock_table_size() on a STABLE map and until
\* unlock_table_size(), no get, put or del, however many entries the map
\* holds, starts a resize: the state stays STABLE and get_num_buckets() does
\* not change.
C18_LockedNoResize ==
  (m_locked /\ m_state = "STABLE") =>
    \A key \in Keys, val \in Vals, oom \in OomChoices :
      \A M \in {get(ThisMap, key, oom).M, put(ThisMap, key, val, oom).M,
                del(ThisMap, key, oom).M} :
        /\ M.state = "STABLE"
        /\ M.locked
        /\ unordered_map_get_num_buckets(M)
             = unordered_map_get_num_buckets(ThisMap)

\* The table size is locked on a STABLE map whose main table holds at least
\* as many entries as would start a resize.
C18_Witness ==
  /\ m_locked
  /\ m_state = "STABLE"
  /\ Cardinality(UNION {EntriesOf(m_main, k) : k \in Keys}) * 100
       >= m_max_load_factor_percent * get_num_buckets(m_main)
  /\ m_main.total_entries > 1

\* C19: delete_all_keys() called in STABLE or in TRANSFER removes every
\* entry from both tables and leaves the map STABLE: afterwards contains(k)
\* is false for every key k, and later put calls succeed and are visible.
C19_DeleteAllKeys ==
  m_state # "ERROR" =>
    \A D \in {delete_all_keys(ThisMap, {})} :
      /\ D.state = "STABLE"
      /\ D.secondary = NoTable
      /\ \A key \in Keys :
           /\ EntriesOf(D.main, key) = {}
           /\ ~contains(D, key)
           /\ \A val \in Vals :
                \A p \in {put(D, key, val, {})} :
                  /\ p.ret
                  /\ contains(p.M, key)
                  /\ \A g \in {get(p.M, key, {})} :
                       Deref(g.M.heap, g.ret) = val

\* The map is in TRANSFER with entries in both tables and delete_all_keys
\* ends the transfer.
C19_Witness ==
  /\ m_state = "TRANSFER"
  /\ \E key \in Keys : table_get(m_main, key) # NULL
  /\ \E key \in Keys : table_get(m_secondary, key) # NULL
  /\ delete_all_keys(ThisMap, {}).main.power = m_secondary.power

\* the number of entries in the buckets of a table
NumEntries(t) ==
  Cardinality(UNION {{<<b, i>> : i \in DOMAIN t.buckets[b].entries} :
                     b \in DOMAIN t.buckets})

\* the map as get (unchanged), put and del have it when they call
\* perform_partial_transfer in TRANSFER
BeforeTransfer ==
  {ThisMap} \cup
  {put_transfer(ThisMap, key, val, oom).M :
     key \in Keys, val \in Vals, oom \in OomChoices} \cup
  {del_transfer(ThisMap, key).M : key \in Keys}

\* C34 as amended: a get, put or del makes at most one partial transfer, and
\* a partial transfer takes out of main min(budget, entries left in main)
\* entries when it meets no allocation failure and fewer when it meets one
\* (it then returns false and the call latches ERROR); secondary gains at
\* most that many entries (an entry whose key secondary already holds is
\* discarded); a call in STABLE moves none, whether or not it starts a
\* resize. The budget is 512 in the code and TransferBudget here.
C34_TransferBudget ==
  /\ m_state = "TRANSFER" =>
       \A M \in BeforeTransfer, oom \in OomChoices :
         \A pt \in {perform_partial_transfer(M, oom)} :
           LET left == NumEntries(M.main)
               moved == left - NumEntries(pt.M.main)
           IN  /\ moved <= TransferBudget
               /\ pt.ok => moved = Min(TransferBudget, left)
               /\ ~pt.ok => moved < Min(TransferBudget, left)
               /\ NumEntries(pt.M.secondary) - NumEntries(M.secondary)
                    \in 0..moved
  /\ m_state = "STABLE" =>
       \A key \in Keys, val \in Vals, oom \in OomChoices :
         \A M \in {get(ThisMap, key, oom).M, put(ThisMap, key, val, oom).M,
                   del(ThisMap, key, oom).M} :
           /\ NumEntries(M.secondary) = 0
           /\ M.cursor = 0

\* C34 as stated: every partial transfer moves exactly min(budget, entries
\* left in main) entries, and a call in STABLE moves none.
C34_AlwaysFullBudget ==
  /\ m_state = "TRANSFER" =>
       \A M \in BeforeTransfer, oom \in OomChoices :
         \A pt \in {perform_partial_transfer(M, oom)} :
           NumEntries(M.main) - NumEntries(pt.M.main)
             = Min(TransferBudget, NumEntries(M.main))
  /\ m_state = "STABLE" =>
       \A key \in Keys, val \in Vals, oom \in OomChoices :
         \A M \in {get(ThisMap, key, oom).M, put(ThisMap, key, val, oom).M,
                   del(ThisMap, key, oom).M} :
           NumEntries(M.secondary) = 0

\* The map is in TRANSFER with more entries in main than one partial
\* transfer moves, and a transfer that meets an allocation failure exists.
C34_Witness ==
  /\ m_state = "TRANSFER"
  /\ NumEntries(m_main) > TransferBudget
  /\ \E oom \in OomChoices : ~perform_partial_transfer(ThisMap, oom).ok

\* C35: a get, put or del made in TRANSFER that meets no allocation failure
\* takes min(budget, N) of the N entries out of main, so the map is STABLE,
\* with the former secondary as main, after the call that finds at most
\* budget entries in main; when the call returns in TRANSFER main still
\* holds at least one entry.
C35_ResizeCompletes ==
  m_state = "TRANSFER" =>
    \A key \in Keys, val \in Vals :
      \A M \in {get(ThisMap, key, {}).M, put(ThisMap, key, val, {}).M,
                del(ThisMap, key, {}).M} :
        /\ M.state = "TRANSFER" => NumEntries(M.main) >= 1
        /\ NumEntries(m_main) <= TransferBudget =>
             /\ M.state = "STABLE"
             /\ M.main.power = m_secondary.power
        /\ M.state = "TRANSFER" =>
             NumEntries(M.main) <= NumEntries(m_main) - TransferBudget

\* C37: between map operations the entry counter of each table equals the
\* number of entries in the buckets of that table.
C37_CountersMatch ==
  /\ m_main.total_entries = NumEntries(m_main)
  /\ m_secondary.total_entries = NumEntries(m_secondary)

\* C38: in every reachable state finalize() and reserve(n) return, under
\* any allocation failures, and they leave the map STABLE when they return
\* true.
C38_FinalizeReserveTerminate ==
  \A oom \in OomChoices :
    /\ \A res \in {finalize(ThisMap, oom)} :
         /\ ~res.diverges
         /\ res.ret => res.M.state = "STABLE"
    /\ \A n \in ReserveArgs :
         \A res \in {reserve(ThisMap, n, oom)} :
           /\ ~res.diverges
           /\ res.ret => res.M.state = "STABLE"

(***************************************************************************)
(* control_blk, shared_ptr, weak_ptr                                       *)
(***************************************************************************)

\* Number of threads, and of handles of each kind a thread holds at most.
NumThreads == 3
MaxHandles == 2

Threads == 1..NumThreads

\* thr[t] = [pc, call, ns, nw]: the position of thread t inside the handle
\* operation it runs (call), and the numbers of shared_ptr (ns) and weak_ptr
\* (nw) handles to the control block that t owns.
Thread(pc, call, ns, nw) == [pc |-> pc, call |-> call, ns |-> ns, nw |-> nw]

\* an increment of the weak count that is lost
inc_weak_skip(weak_count) == weak_count

\* control_blk::inc_weak: m_weak_count.fetch_add(1)
inc_weak(weak_count) == weak_count + 1

\* a dec_weak that tests the new count instead of the previous one
dec_weak_newValue(prev_val) == prev_val - 1 = 1

\* control_blk::dec_weak: the value it returns for the previous count
dec_weak(prev_val) == prev_val = 1

\* weak_ptr::expired: use_count() == 0
expired(strong_count) == strong_count = 0

\* a field of the control block is read or written: a use after free once
\* the block was deallocated
Touch == uaf' = (uaf \/ dealloc_count > 0)

\* shared_ptr(shared_ptr const&) on a handle the thread owns:
\* inc_strong's m_strong_count.fetch_add(1)
S_Copy(t) ==
  /\ thr[t].pc = "idle" /\ thr[t].ns >= 1 /\ thr[t].ns < MaxHandles
  /\ m_strong_count' = m_strong_count + 1
  /\ thr' = [thr EXCEPT ![t] =
               IF m_strong_count = 0
                 THEN Thread("inc_weak", "copy", @.ns, @.nw)
                 ELSE Thread("idle", "none", @.ns + 1, @.nw)]
  /\ Touch
  /\ UNCHANGED <<m_weak_count, m_data, dtor_count, dealloc_count, nonPtrVars>>

\* shared_ptr::reset on a handle the thread owns: dec_strong's
\* m_strong_count.fetch_sub(1)
S_Reset(t) ==
  /\ thr[t].pc = "idle" /\ thr[t].ns >= 1
  /\ m_strong_count' = m_strong_count - 1
  /\ thr' = [thr EXCEPT ![t] =
               IF m_strong_count = 1
                 THEN Thread("deinit", "reset", @.ns - 1, @.nw)
                 ELSE Thread("idle", "none", @.ns - 1, @.nw)]
  /\ Touch
  /\ UNCHANGED <<m_weak_count, m_data, dtor_count, dealloc_count, nonPtrVars>>

\* dec_strong, prev_val == 1: deinit()
S_Deinit(t) ==
  /\ thr[t].pc = "deinit"
  /\ IF m_data = "live"
       THEN dtor_count' = dtor_count + 1 /\ m_data' = "null"
       ELSE UNCHANGED <<dtor_count, m_data>>
  /\ thr' = [thr EXCEPT ![t].pc = "dec_weak"]
  /\ Touch
  /\ UNCHANGED <<m_strong_count, m_weak_count, dealloc_count, nonPtrVars>>

\* dec_strong, prev_val == 1: return dec_weak()
S_DecWeak(t) ==
  /\ thr[t].pc = "dec_weak"
  /\ m_weak_count' = m_weak_count - 1
  /\ thr' = [thr EXCEPT ![t] =
               IF dec_weak(m_weak_count)
                 THEN Thread("dealloc", @.call, @.ns, @.nw)
                 ELSE Thread("idle", "none", @.ns, @.nw)]
  /\ Touch
  /\ UNCHANGED <<m_strong_count, m_data, dtor_count, dealloc_count,
                 nonPtrVars>>

\* reset: m_alloc->deallocate(m_control_blk)
Dealloc(t) ==
  /\ thr[t].pc = "dealloc"
  /\ dealloc_count' = dealloc_count + 1
  /\ thr' = [thr EXCEPT ![t] = Thread("idle", "none", @.ns, @.nw)]
  /\ UNCHANGED <<m_strong_count, m_weak_count, m_data, dtor_count, uaf,
                 nonPtrVars>>

\* weak_ptr(shared_ptr const&) from a shared_ptr the thread owns
W_FromShared(t) ==
  /\ thr[t].pc = "idle" /\ thr[t].ns >= 1 /\ thr[t].nw < MaxHandles
  /\ m_weak_count' = inc_weak(m_weak_count)
  /\ thr' = [thr EXCEPT ![t].nw = @ + 1]
  /\ Touch
  /\ UNCHANGED <<m_strong_count, m_data, dtor_count, dealloc_count,
                 nonPtrVars>>

\* weak_ptr(weak_ptr const&) on a handle the thread owns
W_Copy(t) ==
  /\ thr[t].pc = "idle" /\ thr[t].nw >= 1 /\ thr[t].nw < MaxHandles
  /\ m_weak_count' = inc_weak(m_weak_count)
  /\ thr' = [thr EXCEPT ![t].nw = @ + 1]
  /\ Touch
  /\ UNCHANGED <<m_strong_count, m_data, dtor_count, dealloc_count,
                 nonPtrVars>>

\* weak_ptr::reset on a handle the thread owns
W_Reset(t) ==
  /\ thr[t].pc = "idle" /\ thr[t].nw >= 1
  /\ m_weak_count' = m_weak_count - 1
  /\ thr' = [thr EXCEPT ![t] =
               IF dec_weak(m_weak_count)
                 THEN Thread("dealloc", "reset", @.ns, @.nw - 1)
                 ELSE Thread("idle", "none", @.ns, @.nw - 1)]
  /\ Touch
  /\ UNCHANGED <<m_strong_count, m_data, dtor_count, dealloc_count,
                 nonPtrVars>>

\* weak_ptr::lock on a handle the thread owns: if (expired()) return an
\* empty shared_ptr
W_LockExpired(t) ==
  /\ thr[t].pc = "idle" /\ thr[t].nw >= 1 /\ thr[t].ns < MaxHandles
  /\ thr' = [thr EXCEPT ![t] =
               IF expired(m_strong_count)
                 THEN Thread("idle", "none", @.ns, @.nw)
                 ELSE Thread("lock_inc", "lock", @.ns, @.nw)]
  /\ Touch
  /\ UNCHANGED <<m_strong_count, m_weak_count, m_data, dtor_count,
                 dealloc_count, nonPtrVars>>

\* weak_ptr::lock: shared_ptr(m_alloc, m_control_blk), inc_strong's
\* m_strong_count.fetch_add(1)
W_LockInc(t) ==
  /\ thr[t].pc = "lock_inc"
  /\ m_strong_count' = m_strong_count + 1
  /\ thr' = [thr EXCEPT ![t] =
               IF m_strong_count = 0
                 THEN Thread("inc_weak", "lock", @.ns, @.nw)
                 ELSE Thread("idle", "none", @.ns + 1, @.nw)]
  /\ Touch
  /\ UNCHANGED <<m_weak_count, m_data, dtor_count, dealloc_count, nonPtrVars>>

\* inc_strong whose second update is lost
IncStrongWeak_skip(t) ==
  /\ thr[t].pc = "inc_weak"
  /\ thr' = [thr EXCEPT ![t] = Thread("idle", "none", @.ns + 1, @.nw)]
  /\ Touch
  /\ UNCHANGED <<m_strong_count, m_weak_count, m_data, dtor_count,
                 dealloc_count, nonPtrVars>>

\* inc_strong, prev_strong_count == 0: m_weak_count.fetch_add(1)
IncStrongWeak(t) ==
  /\ thr[t].pc = "inc_weak"
  /\ m_weak_count' = m_weak_count + 1
  /\ thr' = [thr EXCEPT ![t] = Thread("idle", "none", @.ns + 1, @.nw)]
  /\ Touch
  /\ UNCHANGED <<m_strong_count, m_data, dtor_count, dealloc_count,
                 nonPtrVars>>

\* shared_ptr(Alloc*, control_blk*) on the control block just constructed
\* with both counts zero: inc_strong's m_strong_count.fetch_add(1)
S_Make(t) ==
  /\ thr[t].pc = "make"
  /\ m_strong_count' = m_strong_count + 1
  /\ thr' = [thr EXCEPT ![t] =
               IF m_strong_count = 0
                 THEN Thread("inc_weak", "make", @.ns, @.nw)
                 ELSE Thread("idle", "none", @.ns + 1, @.nw)]
  /\ Touch
  /\ UNCHANGED <<m_weak_count, m_data, dtor_count, dealloc_count, nonPtrVars>>

\* shared_ptr(shared_ptr const&) on a handle another thread owns and keeps
\* during the copy: inc_strong's m_strong_count.fetch_add(1)
S_Share(t) ==
  /\ thr[t].pc = "idle" /\ thr[t].ns < MaxHandles
  /\ \E u \in Threads \ {t} : thr[u].ns >= 1
  /\ m_strong_count' = m_strong_count + 1
  /\ thr' = [thr EXCEPT ![t] =
               IF m_strong_count = 0
                 THEN Thread("inc_weak", "copy", @.ns, @.nw)
                 ELSE Thread("idle", "none", @.ns + 1, @.nw)]
  /\ Touch
  /\ UNCHANGED <<m_weak_count, m_data, dtor_count, dealloc_count, nonPtrVars>>

\* threads that copy and reset their own handles
NextPtr ==
  \E t \in Threads :
    \/ S_Copy(t)
    \/ S_Reset(t)
    \/ S_Deinit(t)
    \/ S_DecWeak(t)
    \/ Dealloc(t)
    \/ W_FromShared(t)
    \/ W_Copy(t)
    \/ W_Reset(t)

\* threads that also upgrade their weak_ptr handles with lock()
NextLock ==
  \E t \in Threads :
    \/ S_Copy(t)
    \/ S_Reset(t)
    \/ S_Deinit(t)
    \/ S_DecWeak(t)
    \/ Dealloc(t)
    \/ W_FromShared(t)
    \/ W_Copy(t)
    \/ W_Reset(t)
    \/ W_LockExpired(t)
    \/ W_LockInc(t)
    \/ IncStrongWeak(t)

\* every thread is between two handle operations
AllIdle == \A t \in Threads : thr[t].pc = "idle"

\* no thread owns a handle any more
AllReleased == \A t \in Threads : thr[t].ns = 0 /\ thr[t].nw = 0

\* C3: for threads that copy and reset their own shared_ptr and weak_ptr
\* handles, the payload destructor runs at most once and only after the
\* strong count fell to zero, the control block is deallocated at most once
\* and only after both counts reached zero, both have happened once every
\* handle is released, zero counts mean the deallocation is done or is the
\* next step of the thread that brought the weak count to zero, and no
\* operation touches the control block after its deallocation.
C3_ExactlyOnce ==
  /\ dtor_count <= 1
  /\ dtor_count = 1 => m_strong_count = 0
  /\ m_strong_count > 0 => m_data = "live"
  /\ dealloc_count <= 1
  /\ dealloc_count = 1 =>
       m_strong_count = 0 /\ m_weak_count = 0 /\ dtor_count = 1
  /\ (m_strong_count = 0 /\ m_weak_count = 0) =>
       \/ dealloc_count = 1
       \/ Cardinality({t \in Threads : thr[t].pc = "dealloc"}) = 1
  /\ (AllIdle /\ AllReleased) => dtor_count = 1 /\ dealloc_count = 1
  /\ ~uaf

\* Every handle was released: the last shared_ptr by one thread, the last
\* weak_ptr later, and the payload and the block are gone.
C3_Witness ==
  /\ AllIdle
  /\ AllReleased
  /\ dtor_count = 1
  /\ dealloc_count = 1

\* C4: lock() never raises the strong count from zero, and a lock() that
\* returns a shared_ptr that is not empty returns one whose payload has not
\* been destroyed.
C4_LockUpgrade ==
  [][/\ m_strong_count = 0 => m_strong_count' = 0
     /\ \A t \in Threads :
          (thr[t].call = "lock" /\ thr'[t].pc = "idle"
             /\ thr'[t].ns = thr[t].ns + 1)
            => m_data' = "live"]_vars

\* the control block from its construction on: one thread makes the first
\* shared_ptr, the threads share, copy, reset and lock handles
NextCtor ==
  \E t \in Threads :
    \/ S_Make(t)
    \/ S_Share(t)
    \/ S_Copy(t)
    \/ S_Reset(t)
    \/ S_Deinit(t)
    \/ S_DecWeak(t)
    \/ Dealloc(t)
    \/ W_FromShared(t)
    \/ W_Copy(t)
    \/ W_Reset(t)
    \/ W_LockExpired(t)
    \/ W_LockInc(t)
    \/ IncStrongWeak(t)

\* a thread is between the two updates of the inc_strong that makes the
\* first shared_ptr of the control block
Making == \E t \in Threads : thr[t].pc = "inc_weak" /\ thr[t].call = "make"

\* C25 as amended: in every state of a control block that is not between
\* the two updates of the first inc_strong (the one of the shared_ptr that
\* is made on the new block, which raises the strong count to 1 while the
\* weak count is still 0), the intermediate states of every later
\* inc_strong and dec_strong of concurrent threads included, the weak count
\* is at least 1 whenever the strong count is at least 1.
C25_WeakWhileStrong ==
  (m_strong_count >= 1 /\ ~Making) => m_weak_count >= 1

\* C25 as stated: in every state, the intermediate states of inc_strong
\* included, the weak count is at least 1 whenever the strong count is at
\* least 1.
C25_WeakWhileStrongAlways ==
  m_strong_count >= 1 => m_weak_count >= 1

\* A thread is between the two updates of an inc_strong that found the
\* strong count at zero in lock(), another between the two updates of its
\* dec_strong.
C25_Witness ==
  /\ \E t \in Threads : thr[t].pc = "inc_weak" /\ thr[t].call = "lock"
  /\ \E t \in Threads : thr[t].pc \in {"deinit", "dec_weak"}
  /\ m_strong_count >= 1

\* ---- control_blk used directly, as ControlBlockTest does: one weak
\* reference held (thr[t].nw), threads that call inc_strong and dec_strong
\* in matched pairs (thr[t].ns counts the pairs a thread has open) ----

\* ctrl.inc_strong(): m_strong_count.fetch_add(1); the threads start their
\* pairs while the weak reference is held
C_IncStrong(t) ==
  /\ thr[t].pc = "idle" /\ thr[t].ns < MaxHandles
  /\ \E u \in Threads : thr[u].nw >= 1
  /\ m_strong_count' = m_strong_count + 1
  /\ thr' = [thr EXCEPT ![t] =
               IF m_strong_count = 0
                 THEN Thread("inc_weak", "inc", @.ns, @.nw)
                 ELSE Thread("idle", "none", @.ns + 1, @.nw)]
  /\ Touch
  /\ UNCHANGED <<m_weak_count, m_data, dtor_count, dealloc_count, nonPtrVars>>

\* two threads inside deinit() at once: m_data is a plain pointer, both can
\* read it before either clears it, and then both destroy the payload
S_DeinitRace(t) ==
  /\ thr[t].pc = "deinit"
  /\ m_data = "live"
  /\ \E u \in Threads \ {t} :
       /\ thr[u].pc = "deinit"
       /\ thr' = [thr EXCEPT ![t].pc = "dec_weak", ![u].pc = "dec_weak"]
  /\ dtor_count' = dtor_count + 2
  /\ m_data' = "null"
  /\ Touch
  /\ UNCHANGED <<m_strong_count, m_weak_count, dealloc_count, nonPtrVars>>

\* the threads of ControlBlockTest and the holder of the weak reference
NextCtrl ==
  \E t \in Threads :
    \/ C_IncStrong(t)
    \/ IncStrongWeak(t)
    \/ S_Reset(t)
    \/ S_Deinit(t)
    \/ S_DeinitRace(t)
    \/ S_DecWeak(t)
    \/ W_Reset(t)
    \/ Dealloc(t)

\* C36: while a weak reference is held, no dec_strong of the threads that
\* run matched inc_strong and dec_strong pairs returns true, under any
\* interleaving of their atomic updates; and the dec_weak that releases the
\* held weak reference after all pairs are complete returns true.
C36_HeldWeakKeepsBlock ==
  [][\A t \in Threads :
       /\ (thr[t].pc = "dec_weak" /\ thr'[t].pc # "dec_weak"
              /\ \E u \in Threads : thr[u].nw >= 1)
            => thr'[t].pc = "idle"
       /\ (thr'[t].nw < thr[t].nw
              /\ \A u \in Threads : thr[u].pc = "idle" /\ thr[u].ns = 0)
            => thr'[t].pc = "dealloc"]_vars

\* The weak reference was released last and its dec_weak gave the signal,
\* after the strong count had gone from zero to one more than once (the
\* payload is gone and two threads had raced in deinit).
C36_Witness ==
  /\ \E t \in Threads : thr[t].pc = "dealloc" /\ thr[t].nw = 0
  /\ \A t \in Threads : thr[t].ns = 0 /\ thr[t].nw = 0
  /\ m_strong_count = 0
  /\ dtor_count >= 2

(***************************************************************************)
(* TLSF arena (rtl_tlsf_alloc, rtl_tlsf_free). The implementation file     *)
(* memory.incl is not part of the sources; the arena is modelled from the  *)
(* design document, the declarations of rtl/memory.h and the calls of      *)
(* test/memory_test.cpp.                                                   *)
(***************************************************************************)

\* Words of the region handed to rtl_tlsf_make_arena (L, in words).
RegionWords == 22

\* Words of the arena state (bitmaps and list heads) at the start of the
\* region.
ArenaStateWords == 2

\* Words of a block header in front of the payload, and of the smallest block.
HeaderWords == 2
MinBlockWords == 4

\* Requests are of at most this many words.
MaxRequestWords == 4

\* The constants of a build with 8-byte words.
WORD_SIZE_BYTES == 8
MINIMUM_FLI == 8
MINIMUM_FLI_ALLOCATION == 256
FLI_SHIFT_VAL == 7

RegionBytes == RegionWords * WORD_SIZE_BYTES
HeaderBytes == HeaderWords * WORD_SIZE_BYTES
MinBlockBytes == MinBlockWords * WORD_SIZE_BYTES
ArenaStateBytes == ArenaStateWords * WORD_SIZE_BYTES

\* offset of the first block header: right behind the arena state
FirstBlock == ArenaStateBytes

\* size of the block rtl_tlsf_make_arena creates: the rest of the region
PoolBytes == RegionBytes - ArenaStateBytes

\* the null block header
NoBlock == -1

\* rtl_align(word_size, sz) for a word size that is a power of two
rtl_align(word_size, sz) == ((sz + word_size - 1) \div word_size) * word_size

RECURSIVE Log2(_)
Log2(n) == IF n <= 1 THEN 0 ELSE 1 + Log2(n \div 2)

RECURSIVE Pow2(_)
Pow2(n) == IF n <= 0 THEN 1 ELSE 2 * Pow2(n - 1)

\* mapping_insert(r): the class <<fli, sli>> a free block of size r is in
mapping_insert(r) ==
  IF r < MINIMUM_FLI_ALLOCATION
    THEN <<MINIMUM_FLI - 1, r \div WORD_SIZE_BYTES>>
    ELSE LET fli == Log2(r)
         IN  <<fli, (r \div Pow2(fli - FLI_SHIFT_VAL)) % Pow2(FLI_SHIFT_VAL)>>

\* mapping_search(r): the lowest class all of whose blocks are of size >= r
mapping_search(r) ==
  IF r < MINIMUM_FLI_ALLOCATION
    THEN mapping_insert(r)
    ELSE mapping_insert(r + Pow2(Log2(r) - FLI_SHIFT_VAL) - 1)

\* the classes of the blocks a region of RegionBytes can hold
FreeClasses ==
  {mapping_insert(w * WORD_SIZE_BYTES) :
     w \in MinBlockWords..(RegionWords - ArenaStateWords)}

FLIs == {c[1] : c \in FreeClasses}

SetMin(S) == CHOOSE x \in S : \A y \in S : x <= y

\* a block header
Block(size, free, last, prev_physical) ==
  [size |-> size, free |-> free, last |-> last,
   prev_physical |-> prev_physical, next_free |-> NoBlock,
   prev_free |-> NoBlock]

\* the arena: A = [blocks, free_lists, fl_bitmap, sl_bitmap]
ThisArena ==
  [blocks |-> blocks, free_lists |-> free_lists, fl_bitmap |-> fl_bitmap,
   sl_bitmap |-> sl_bitmap]

\* NEXT_BLK(b): the header behind block b
NEXT_BLK(blks, b) == b + blks[b].size

\* the block table without block b
Without(blks, b) == [o \in (DOMAIN blks) \ {b} |-> blks[o]]

\* an insert that leaves the first-level bitmap alone
insert_free_block_noFlBit(A, b) ==
  LET c == mapping_insert(A.blocks[b].size)
      head == A.free_lists[c]
      b1 == [A.blocks EXCEPT ![b].free = TRUE, ![b].next_free = head,
                             ![b].prev_free = NoBlock]
      b2 == IF head = NoBlock THEN b1 ELSE [b1 EXCEPT ![head].prev_free = b]
  IN  [blocks |-> b2,
       free_lists |-> [A.free_lists EXCEPT ![c] = b],
       fl_bitmap |-> A.fl_bitmap,
       sl_bitmap |-> [A.sl_bitmap EXCEPT ![c[1]] = @ \cup {c[2]}]]

\* insert block b at the head of the list of its class, as a free block
insert_free_block(A, b) ==
  LET c == mapping_insert(A.blocks[b].size)
      head == A.free_lists[c]
      b1 == [A.blocks EXCEPT ![b].free = TRUE, ![b].next_free = head,
                             ![b].prev_free = NoBlock]
      b2 == IF head = NoBlock THEN b1 ELSE [b1 EXCEPT ![head].prev_free = b]
  IN  [blocks |-> b2,
       free_lists |-> [A.free_lists EXCEPT ![c] = b],
       fl_bitmap |-> A.fl_bitmap \cup {c[1]},
       sl_bitmap |-> [A.sl_bitmap EXCEPT ![c[1]] = @ \cup {c[2]}]]

\* rtl_tlsf_make_arena: the arena state at the start of the region and one
\* block, free and last, over the rest of it, in the list of its class
rtl_tlsf_make_arena ==
  insert_free_block(
    [blocks |-> (FirstBlock :> Block(PoolBytes, FALSE, TRUE, NoBlock)),
     free_lists |-> [c \in FreeClasses |-> NoBlock],
     fl_bitmap |-> {},
     sl_bitmap |-> [f \in FLIs |-> {}]], FirstBlock)

\* unlink the free block b from the list of its class
remove_free_block(A, b) ==
  LET c == mapping_insert(A.blocks[b].size)
      n == A.blocks[b].next_free
      q == A.blocks[b].prev_free
      b1 == IF q = NoBlock THEN A.blocks
            ELSE [A.blocks EXCEPT ![q].next_free = n]
      b2 == IF n = NoBlock THEN b1 ELSE [b1 EXCEPT ![n].prev_free = q]
      fl == IF q = NoBlock THEN [A.free_lists EXCEPT ![c] = n]
            ELSE A.free_lists
      sl == IF fl[c] = NoBlock
              THEN [A.sl_bitmap EXCEPT ![c[1]] = @ \ {c[2]}]
              ELSE A.sl_bitmap
  IN  [blocks |-> [b2 EXCEPT ![b].next_free = NoBlock,
                             ![b].prev_free = NoBlock],
       free_lists |-> fl,
       fl_bitmap |-> IF sl[c[1]] = {} THEN A.fl_bitmap \ {c[1]}
                     ELSE A.fl_bitmap,
       sl_bitmap |-> sl]

\* find_suitable_block: the first class at or above <<fli, sli>> that has a
\* free block, <<>> when there is none
find_suitable_block(A, fli, sli) ==
  LET here == IF fli \in FLIs THEN {x \in A.sl_bitmap[fli] : x >= sli}
              ELSE {}
      above == {f \in A.fl_bitmap : f > fli}
  IN  IF here # {} THEN <<fli, SetMin(here)>>
      ELSE IF above # {}
        THEN <<SetMin(above), SetMin(A.sl_bitmap[SetMin(above)])>>
      ELSE <<>>

\* a split that leaves the back link of the tail unset
split_blk_noPrev(blks, b, size) ==
  LET t == b + size
      tail == Block(blks[b].size - size, FALSE, blks[b].last, NoBlock)
      b1 == [o \in (DOMAIN blks) \cup {t} |->
               IF o = t THEN tail
               ELSE IF o = b THEN [blks[b] EXCEPT !.size = size,
                                                  !.last = FALSE]
               ELSE blks[o]]
  IN  IF tail.last THEN b1
      ELSE [b1 EXCEPT ![t + tail.size].prev_physical = t]

\* split_blk(b, size): block b keeps size bytes, the rest is a new block
\* behind it
split_blk(blks, b, size) ==
  LET t == b + size
      tail == Block(blks[b].size - size, FALSE, blks[b].last, b)
      b1 == [o \in (DOMAIN blks) \cup {t} |->
               IF o = t THEN tail
               ELSE IF o = b THEN [blks[b] EXCEPT !.size = size,
                                                  !.last = FALSE]
               ELSE blks[o]]
  IN  IF tail.last THEN b1
      ELSE [b1 EXCEPT ![t + tail.size].prev_physical = t]

\* block first absorbs the block second right behind it
Absorb(blks, first, second) ==
  LET b1 == [Without(blks, second) EXCEPT
               ![first].size = @ + blks[second].size,
               ![first].last = blks[second].last]
  IN  IF blks[second].last THEN b1
      ELSE [b1 EXCEPT ![NEXT_BLK(blks, second)].prev_physical = first]

\* a merge with the previous block that never happens
merge_prev_skip(A, b) == [A |-> A, blk |-> b]

\* merge_prev(arena, b): [A, blk], blk the block that now holds b
merge_prev(A, b) ==
  LET q == A.blocks[b].prev_physical
  IN  IF q = NoBlock \/ ~A.blocks[q].free THEN [A |-> A, blk |-> b]
      ELSE Only({[A |-> [A1 EXCEPT !.blocks = Absorb(A1.blocks, q, b)],
                  blk |-> q] :
                 A1 \in {remove_free_block(A, q)}})

\* a merge with the next block that never happens
merge_next_skip(A, b) == [A |-> A, blk |-> b]

\* merge_next(arena, b): [A, blk]
merge_next(A, b) ==
  IF A.blocks[b].last \/ ~A.blocks[NEXT_BLK(A.blocks, b)].free
    THEN [A |-> A, blk |-> b]
    ELSE Only({[A |-> [A1 EXCEPT !.blocks =
                          Absorb(A1.blocks, b, NEXT_BLK(A.blocks, b))],
                blk |-> b] :
               A1 \in {remove_free_block(A, NEXT_BLK(A.blocks, b))}})

\* blk_hdr_to_ptr and ptr_to_blk_hdr
blk_hdr_to_ptr(b) == b + HeaderBytes
ptr_to_blk_hdr(ptr) == ptr - HeaderBytes

\* the size of the block that serves a request of sz bytes
adjust_request(sz) ==
  LET need == rtl_align(WORD_SIZE_BYTES, sz) + HeaderBytes
  IN  IF need < MinBlockBytes THEN MinBlockBytes ELSE need

\* rtl_tlsf_alloc(arena, sz): [A, ret], ret the payload pointer or NULL
rtl_tlsf_alloc(A, sz) ==
  LET size == adjust_request(sz)
      m == mapping_search(size)
      c == find_suitable_block(A, m[1], m[2])
  IN  IF c = <<>> THEN [A |-> A, ret |-> NULL]
      ELSE
        LET b == A.free_lists[c]
        IN  Only({
              IF A1.blocks[b].size - size >= MinBlockBytes
                THEN Only({[A |-> [A2 EXCEPT !.blocks[b].free = FALSE],
                            ret |-> blk_hdr_to_ptr(b)] :
                           A2 \in {insert_free_block(
                                     [A1 EXCEPT !.blocks =
                                        split_blk(A1.blocks, b, size)],
                                     b + size)}})
                ELSE [A |-> [A1 EXCEPT !.blocks[b].free = FALSE],
                      ret |-> blk_hdr_to_ptr(b)] :
              A1 \in {remove_free_block(A, b)}})

\* rtl_tlsf_free(arena, ptr): [A, blk, merged], blk the block that holds the
\* freed memory afterwards and merged the number of neighbours it absorbed
rtl_tlsf_free(A, ptr) ==
  IF ptr = NULL THEN [A |-> A, blk |-> NoBlock, merged |-> 0]
  ELSE
    Only({Only({[A |-> insert_free_block(m2.A, m2.blk), blk |-> m2.blk,
                 merged |-> Cardinality(DOMAIN A.blocks)
                              - Cardinality(DOMAIN m2.A.blocks)] :
                m2 \in {merge_next(m1.A, m1.blk)}}) :
          m1 \in {merge_prev([A EXCEPT !.blocks[ptr_to_blk_hdr(ptr)].free
                                         = TRUE],
                             ptr_to_blk_hdr(ptr))}})

\* request sizes: the multiples of the word size and the byte before each
Requests ==
  {r \in 0..(MaxRequestWords * WORD_SIZE_BYTES) :
     r % WORD_SIZE_BYTES \in {0, WORD_SIZE_BYTES - 1}}

\* the pointers rtl_tlsf_alloc returned that were not freed since
Allocated == {blk_hdr_to_ptr(b) : b \in {o \in DOMAIN blocks : ~blocks[o].free}}

SetArena(A) ==
  /\ blocks' = A.blocks
  /\ free_lists' = A.free_lists
  /\ fl_bitmap' = A.fl_bitmap
  /\ sl_bitmap' = A.sl_bitmap

Alloc ==
  \E sz \in Requests :
    \E res \in {rtl_tlsf_alloc(ThisArena, sz)} :
      /\ SetArena(res.A)
      /\ tlsf_op' = [name |-> "alloc",
                     blk |-> IF res.ret = NULL THEN NoBlock
                             ELSE ptr_to_blk_hdr(res.ret),
                     merged |-> 0]
      /\ UNCHANGED nonTlsfVars

TlsfFree ==
  \E ptr \in Allocated \cup {NULL} :
    \E res \in {rtl_tlsf_free(ThisArena, ptr)} :
      /\ SetArena(res.A)
      /\ tlsf_op' = [name |-> "free", blk |-> res.blk, merged |-> res.merged]
      /\ UNCHANGED nonTlsfVars

NextTlsf == Alloc \/ TlsfFree

\* the blocks in physical order, from the first block on
RECURSIVE PhysicalChain(_, _)
PhysicalChain(b, n) ==
  IF n = 0 \/ b \notin DOMAIN blocks THEN <<>>
  ELSE IF blocks[b].last THEN <<b>>
  ELSE <<b>> \o PhysicalChain(NEXT_BLK(blocks, b), n - 1)

RECURSIVE SumSizes(_)
SumSizes(S) ==
  IF S = {} THEN 0
  ELSE LET b == CHOOSE x \in S : TRUE
       IN  blocks[b].size + SumSizes(S \ {b})

\* the blocks followed in physical order from the first block are all the
\* blocks, end at the end of the region with the one block flagged last, and
\* each has its physical-previous link at the block right before it (none
\* for the first)
ChainContiguous ==
  LET chain == PhysicalChain(FirstBlock, Cardinality(DOMAIN blocks))
  IN  /\ {chain[i] : i \in 1..Len(chain)} = DOMAIN blocks
      /\ Len(chain) = Cardinality(DOMAIN blocks)
      /\ blocks[chain[Len(chain)]].last
      /\ NEXT_BLK(blocks, chain[Len(chain)]) = RegionBytes
      /\ \A b \in DOMAIN blocks :
           blocks[b].last <=> b = chain[Len(chain)]
      /\ blocks[FirstBlock].prev_physical = NoBlock
      /\ \A i \in 2..Len(chain) :
           blocks[chain[i]].prev_physical = chain[i - 1]

\* C5 as amended: after any sequence of rtl_tlsf_alloc and rtl_tlsf_free
\* calls on an arena created over a region of size L, the sizes of all blocks
\* sum to the size of the block rtl_tlsf_make_arena created, which is L less
\* the arena state at the start of the region, and the physical chain from
\* the first block is contiguous up to the block flagged last, with every
\* physical-previous link at the block right before.
C5_Conservation ==
  /\ SumSizes(DOMAIN blocks) = PoolBytes
  /\ ChainContiguous

\* C5 as stated: the sizes of all blocks sum to L, the size of the region
\* the arena was created over, and the physical chain is contiguous.
C5_SumIsRegion ==
  /\ SumSizes(DOMAIN blocks) = RegionBytes
  /\ ChainContiguous

\* Four blocks after splits and a free in the middle of the region.
C5_Witness ==
  /\ Cardinality(DOMAIN blocks) >= 4
  /\ tlsf_op.name = "free"
  /\ tlsf_op.blk > FirstBlock
  /\ ~blocks[tlsf_op.blk].last

\* C6: after rtl_tlsf_free returns, the physical predecessor and successor
\* of the block that holds the freed memory are busy where they exist, and
\* between calls no two physically adjacent blocks are both free.
C6_Coalesced ==
  /\ \A b \in DOMAIN blocks :
       (blocks[b].free /\ ~blocks[b].last)
         => ~blocks[NEXT_BLK(blocks, b)].free
  /\ (tlsf_op.name = "free" /\ tlsf_op.blk # NoBlock) =>
       LET b == tlsf_op.blk
       IN  /\ blocks[b].free
           /\ blocks[b].prev_physical # NoBlock
                => ~blocks[blocks[b].prev_physical].free
           /\ ~blocks[b].last => ~blocks[NEXT_BLK(blocks, b)].free

\* A free merged the block with both of its neighbours, and busy blocks
\* remain on both sides of the result.
C6_Witness ==
  /\ tlsf_op.name = "free"
  /\ tlsf_op.merged = 2
  /\ blocks[tlsf_op.blk].prev_physical # NoBlock
  /\ ~blocks[tlsf_op.blk].last

\* the blocks of a free list in list order, from block b on, at most n
RECURSIVE FreeListFrom(_, _)
FreeListFrom(b, n) ==
  IF n = 0 \/ b \notin DOMAIN blocks THEN <<>>
  ELSE <<b>> \o FreeListFrom(blocks[b].next_free, n - 1)

\* C32: between calls, the list of every class <<fli, sli>> ends, holds no
\* block twice, holds only free blocks whose size maps to that class, and is
\* doubly linked; every free block is in exactly one list and no busy block
\* is in any; the second-level bit of a class is set iff its list is not
\* empty, and a first-level bit is set iff its second-level bitmap is not
\* empty.
C32_FreeListsAndBitmaps ==
  LET n == Cardinality(DOMAIN blocks)
      list(c) == FreeListFrom(free_lists[c], n + 1)
      members(c) == {list(c)[i] : i \in 1..Len(list(c))}
  IN  /\ \A c \in FreeClasses :
           /\ Len(list(c)) <= n
           /\ Cardinality(members(c)) = Len(list(c))
           /\ \A i \in 1..Len(list(c)) :
                /\ blocks[list(c)[i]].free
                /\ mapping_insert(blocks[list(c)[i]].size) = c
                /\ blocks[list(c)[i]].prev_free =
                     (IF i = 1 THEN NoBlock ELSE list(c)[i - 1])
                /\ blocks[list(c)[i]].next_free =
                     (IF i = Len(list(c)) THEN NoBlock ELSE list(c)[i + 1])
      /\ \A b \in DOMAIN blocks :
           Cardinality({c \in FreeClasses : b \in members(c)}) =
             (IF blocks[b].free THEN 1 ELSE 0)
      /\ \A f \in FLIs :
           sl_bitmap[f] = {c[2] : c \in {x \in FreeClasses :
                                          x[1] = f /\ free_lists[x] # NoBlock}}
      /\ fl_bitmap = {f \in FLIs : sl_bitmap[f] # {}}

\* A free has put a second block into the list of a class, with blocks still
\* allocated.
C32_Witness ==
  /\ tlsf_op.name = "free"
  /\ \E c \in FreeClasses :
       /\ free_lists[c] # NoBlock
       /\ blocks[free_lists[c]].next_free # NoBlock
  /\ \E b \in DOMAIN blocks : ~blocks[b].free

\* C33: whenever every pointer rtl_tlsf_alloc returned has been freed, in
\* whatever order and with whatever calls in between, the arena is in the
\* state rtl_tlsf_make_arena left it in: one free block flagged last over
\* the whole managed region, and the same bitmaps and list heads.
C33_FreeAllRestoresArena ==
  (\A b \in DOMAIN blocks : blocks[b].free) =>
    /\ ThisArena = rtl_tlsf_make_arena
    /\ DOMAIN blocks = {FirstBlock}
    /\ blocks[FirstBlock].size = PoolBytes
    /\ blocks[FirstBlock].last

\* The free of the last pointer held, which merged the block with free
\* neighbours on both sides.
C33_Witness ==
  /\ tlsf_op.name = "free"
  /\ tlsf_op.merged = 2
  /\ \A b \in DOMAIN blocks : blocks[b].free

(***************************************************************************)
(* object_pool                                                             *)
(***************************************************************************)

\* Largest num_objects of the constructor and of add_to_pool, largest
\* elasticity, and the number of slots the allocator hands out at most.
MaxObjects == 2
MaxElasticity == 2
MaxSlots == 3

\* The allocations of one call are numbered 1, 2, ... in the order they are
\* made; a pattern of allocator failures is the set of the numbers that
\* fail.
AllocOrdinals == 1..(2 * MaxObjects + 1)

\* A pool P = [vector, elasticity, out, made, lost, k, asked]: vector is
\* m_vector as [buf, capacity], out the slots handed out, made the number of
\* slots allocated so far (slots are numbered 1, 2, ...), lost the slots
\* that are in neither place; k counts the allocations of the running call
\* and asked those of them that are m_alloc->allocate(sizeof(T)).
ThisPool ==
  [vector |-> m_vector, elasticity |-> m_elasticity, out |-> pool_out,
   made |-> pool_made, lost |-> pool_lost, k |-> 0, asked |-> 0]

\* vector::reserve
vector_reserve(P, new_capacity, oom) ==
  IF new_capacity <= P.vector.capacity
    THEN [P |-> P, ok |-> TRUE]
    ELSE IF (P.k + 1) \in oom
      THEN [P |-> [P EXCEPT !.k = @ + 1], ok |-> FALSE]
      ELSE [P |-> [P EXCEPT !.k = @ + 1, !.vector.capacity = new_capacity],
            ok |-> TRUE]

\* vector::push_back
vector_push_back(P, value, oom) ==
  LET grown == IF Len(P.vector.buf) = P.vector.capacity
                 THEN vector_reserve(P, IF P.vector.capacity = 0 THEN 1
                                        ELSE 2 * P.vector.capacity, oom)
                 ELSE [P |-> P, ok |-> TRUE]
  IN  IF grown.ok
        THEN [P |-> [grown.P EXCEPT !.vector.buf = Append(@, value)],
              ok |-> TRUE]
        ELSE [P |-> grown.P, ok |-> FALSE]

\* add_to_pool: the loop from index i on
RECURSIVE add_to_pool_loop(_, _, _, _)
add_to_pool_loop(P, i, num_objects, oom) ==
  IF i >= num_objects
    THEN [P |-> P, ret |-> num_objects]
    ELSE IF (P.k + 1) \in oom
      THEN [P |-> [P EXCEPT !.k = @ + 1, !.asked = @ + 1], ret |-> i]
      ELSE LET tmp == P.made + 1
               Q == [P EXCEPT !.k = @ + 1, !.asked = @ + 1, !.made = tmp]
               pushed == vector_push_back(Q, tmp, oom)
           IN  IF pushed.ok
                 THEN add_to_pool_loop(pushed.P, i + 1, num_objects, oom)
                 ELSE [P |-> [pushed.P EXCEPT !.lost = @ \cup {tmp}],
                       ret |-> i]

\* add_to_pool that reports every slot it was asked for
add_to_pool_reportsAll(P, num_objects, oom) ==
  LET reserved == vector_reserve(P, Len(P.vector.buf) + num_objects, oom)
  IN  [P |-> add_to_pool_loop(reserved.P, 0, num_objects, oom).P,
       ret |-> num_objects]

\* size_t add_to_pool(size_t num_objects)
add_to_pool(P, num_objects, oom) ==
  LET reserved == vector_reserve(P, Len(P.vector.buf) + num_objects, oom)
  IN  add_to_pool_loop(reserved.P, 0, num_objects, oom)

\* object_pool(Alloc* alloc, size_t num_objects, size_t elasticity)
object_pool(num_objects, elasticity, oom) ==
  add_to_pool([vector |-> [buf |-> <<>>, capacity |-> 0],
               elasticity |-> IF elasticity < 1 THEN 1 ELSE elasticity,
               out |-> {}, made |-> 0, lost |-> {}, k |-> 0, asked |-> 0],
              num_objects, oom).P

\* T* get(Args&&...): ret is the slot, NULL for nullptr
object_pool_get(P, oom) ==
  LET added == IF Len(P.vector.buf) = 0
                 THEN add_to_pool(P, P.elasticity, oom)
                 ELSE [P |-> P, ret |-> 1]
      Q == added.P
      n == Len(Q.vector.buf)
  IN  IF added.ret < 1
        THEN [P |-> Q, ret |-> NULL]
        ELSE [P |-> [Q EXCEPT !.vector.buf = SubSeq(@, 1, n - 1),
                              !.out = @ \cup {Q.vector.buf[n]}],
              ret |-> Q.vector.buf[n]]

\* void put(T* in)
object_pool_put(P, in, oom) ==
  IF in = NULL
    THEN P
    ELSE LET pushed == vector_push_back([P EXCEPT !.out = @ \ {in}], in, oom)
         IN  IF pushed.ok
               THEN pushed.P
               ELSE [pushed.P EXCEPT !.lost = @ \cup {in}]

\* void set_elasticity(size_t elasticity)
set_elasticity(P, elasticity) == [P EXCEPT !.elasticity = elasticity]

SetPool(P) ==
  /\ m_vector' = P.vector
  /\ m_elasticity' = P.elasticity
  /\ pool_out' = P.out
  /\ pool_made' = P.made
  /\ pool_lost' = P.lost

PoolOp(name, arg, ret, asked) ==
  [name |-> name, arg |-> arg, ret |-> ret,
   size_before |-> Len(m_vector.buf), asked |-> asked]

AddToPool ==
  \E num_objects \in 0..MaxObjects : \E oom \in SUBSET AllocOrdinals :
    /\ pool_made + num_objects <= MaxSlots
    /\ \E res \in {add_to_pool(ThisPool, num_objects, oom)} :
         /\ SetPool(res.P)
         /\ pool_op' = PoolOp("add_to_pool", num_objects, res.ret,
                              res.P.asked)
    /\ UNCHANGED nonPoolVars

PoolGet ==
  \E oom \in SUBSET AllocOrdinals :
    /\ pool_made + m_elasticity <= MaxSlots
    /\ \E res \in {object_pool_get(ThisPool, oom)} :
         /\ SetPool(res.P)
         /\ pool_op' = PoolOp("get", 0, res.ret, res.P.asked)
    /\ UNCHANGED nonPoolVars

PoolPut ==
  \E in \in pool_out : \E oom \in SUBSET AllocOrdinals :
    /\ SetPool(object_pool_put(ThisPool, in, oom))
    /\ pool_op' = PoolOp("put", in, 0, 0)
    /\ UNCHANGED nonPoolVars

SetElasticity ==
  \E elasticity \in 0..MaxElasticity :
    /\ SetPool(set_elasticity(ThisPool, elasticity))
    /\ pool_op' = PoolOp("set_elasticity", elasticity, 0, 0)
    /\ UNCHANGED nonPoolVars

NextPool == AddToPool \/ PoolGet \/ PoolPut \/ SetElasticity

\* C28: after put(p) of a slot that get() handed out, size() is exactly one
\* larger than before the call, whatever the allocator does during the
\* call, and the slot is not lost.
C28_PutGrowsPool ==
  pool_op.name = "put" =>
    /\ Len(m_vector.buf) = pool_op.size_before + 1
    /\ pool_op.arg \notin pool_lost

\* C29: the elasticity is at least 1 in every state, and a get() on an empty
\* pool asks the allocator for at least one slot.
C29_ElasticityAtLeastOne ==
  /\ m_elasticity >= 1
  /\ (pool_op.name = "get" /\ pool_op.size_before = 0) => pool_op.asked >= 1

\* C30: in every state of the pool, for every argument n and every pattern
\* of allocator failures, add_to_pool(n) returns r <= n, size() grows by
\* exactly r with the slots that were there left in place, and when every
\* allocation fails r = 0 and the vector, the slots handed out and the
\* elasticity are unchanged.
C30_AddToPoolCount ==
  \A num_objects \in 0..MaxObjects : \A oom \in SUBSET AllocOrdinals :
    LET res == add_to_pool(ThisPool, num_objects, oom)
        size == Len(m_vector.buf)
    IN  /\ res.ret <= num_objects
        /\ Len(res.P.vector.buf) = size + res.ret
        /\ SubSeq(res.P.vector.buf, 1, size) = m_vector.buf
        /\ oom = AllocOrdinals =>
             /\ res.ret = 0
             /\ res.P.vector = m_vector
             /\ res.P.out = pool_out
             /\ res.P.elasticity = m_elasticity

\* add_to_pool(2) added one slot and stopped at a failed allocation, in a
\* pool that already held a slot.
C30_Witness ==
  /\ pool_op.name = "add_to_pool"
  /\ pool_op.arg = 2
  /\ pool_op.ret = 1
  /\ pool_op.size_before >= 1

(***************************************************************************)
(* lru                                                                     *)
(***************************************************************************)

\* Largest capacity of a cache, and the number of keys its callers use.
MaxLruCapacity == 3
NumLruKeys == 4

LruKeys == 0..(NumLruKeys - 1)
LruVals == 0..(NumVals - 1)

\* A cache L = [head, tail, size, capacity, nodes, map, pool, asserts].
\* nodes holds the constructed LRUNodes by slot number, map is m_map as a
\* function key -> LRUNode* (the constructor reserves the buckets of m_map
\* and latches its table size, so m_map stays one table), pool the raw slots
\* of m_pool in the order of its vector, asserts whether the assertions of
\* the running call held.
ThisLru ==
  [head |-> m_head, tail |-> m_tail, size |-> m_size,
   capacity |-> lru_capacity, nodes |-> lru_nodes, map |-> lru_map,
   pool |-> lru_pool, asserts |-> TRUE]

\* lru(Alloc* alloc, size_t capacity), every allocation successful
lru(capacity) ==
  [head |-> NULL, tail |-> NULL, size |-> 0, capacity |-> capacity,
   nodes |-> [n \in {} |-> NULL], map |-> [k \in LruKeys |-> NULL],
   pool |-> [i \in 1..capacity |-> i], asserts |-> TRUE]

\* m_pool.get(key, val): the last raw slot of the pool (a new one when the
\* pool is empty), an LRUNode constructed in it
m_pool_get(L, key, val) ==
  LET n == Len(L.pool)
      slot == IF n = 0 THEN Cardinality(DOMAIN L.nodes) + 1 ELSE L.pool[n]
  IN  [L |-> [L EXCEPT !.pool = SubSeq(@, 1, n - 1),
                       !.nodes = (slot :> [key |-> key, val |-> val,
                                           prev |-> NULL, next |-> NULL])
                                   @@ @],
       ret |-> slot]

\* m_pool.put(node): ~LRUNode() and the raw slot back into the pool
m_pool_put(L, node) ==
  [L EXCEPT !.nodes = [n \in (DOMAIN @) \ {node} |-> @[n]],
            !.pool = Append(@, node)]

\* LRUNode* back()
back(L) == L.tail

\* void pop_back()
pop_back(L) ==
  IF L.size = 0
    THEN L
    ELSE IF L.size = 1
      THEN m_pool_put([L EXCEPT !.head = NULL, !.tail = NULL, !.size = 0],
                      L.head)
      ELSE LET node == L.tail
               tail == L.nodes[node].prev
           IN  m_pool_put([L EXCEPT !.tail = tail,
                                    !.nodes = [@ EXCEPT ![tail].next = NULL],
                                    !.size = @ - 1],
                          node)

\* void push_front(LRUNode* node)
push_front(L, node) ==
  LET asserted == L.nodes[node].next = NULL /\ L.nodes[node].prev = NULL
  IN  IF L.size = 0
        THEN [L EXCEPT !.head = node, !.tail = node,
                       !.nodes = [@ EXCEPT ![node].prev = NULL,
                                           ![node].next = NULL],
                       !.size = 1,
                       !.asserts = @ /\ asserted]
        ELSE [L EXCEPT !.nodes = [@ EXCEPT ![node].next = L.head,
                                           ![node].prev = NULL,
                                           ![L.head].prev = node],
                       !.head = node,
                       !.size = @ + 1,
                       !.asserts = @ /\ asserted]

\* take_node that leaves the node where it is in the list
take_node_keepsPlace(L, node) == [L EXCEPT !.size = @ - 1]

\* void take_node(LRUNode* node)
take_node(L, node) ==
  LET prev == L.nodes[node].prev
      next == L.nodes[node].next
      cleared == [L.nodes EXCEPT ![node].prev = NULL, ![node].next = NULL]
  IN  IF L.size = 0
        THEN [L EXCEPT !.asserts = FALSE]
        ELSE IF L.size = 1
          THEN [L EXCEPT !.nodes = cleared, !.head = NULL, !.tail = NULL,
                         !.size = 0]
          ELSE IF node = L.head
            THEN [L EXCEPT !.nodes = cleared, !.head = next, !.size = @ - 1]
            ELSE IF node = L.tail
              THEN [L EXCEPT !.nodes = cleared, !.tail = prev,
                             !.size = @ - 1]
              ELSE [L EXCEPT !.nodes = [cleared EXCEPT ![prev].next = next,
                                                       ![next].prev = prev],
                             !.size = @ - 1]

\* bool contains(Key const& key)
lru_contains(L, key) == [L |-> L, ret |-> L.map[key] # NULL]

\* get that clears the caller's variable when the key is not cached
lru_get_clearsOutVar(L, key, out_var) ==
  LET node == L.map[key]
  IN  IF node = NULL
        THEN [L |-> L, ret |-> FALSE, out_var |-> 0]
        ELSE [L |-> push_front(take_node(L, node), node), ret |-> TRUE,
              out_var |-> L.nodes[node].val]

\* bool get(Key const& key, T* out_var); out_var is the caller's variable
lru_get(L, key, out_var) ==
  LET node == L.map[key]
  IN  IF node = NULL
        THEN [L |-> L, ret |-> FALSE, out_var |-> out_var]
        ELSE [L |-> push_front(take_node(L, node), node), ret |-> TRUE,
              out_var |-> L.nodes[node].val]

\* T* get_ptr(Key const& key): ret is the node whose value is pointed to
lru_get_ptr(L, key) ==
  LET node == L.map[key]
  IN  IF node = NULL
        THEN [L |-> L, ret |-> NULL]
        ELSE [L |-> push_front(take_node(L, node), node), ret |-> node]

\* bool put(Key const& key, U&& val); fails tells whether m_map.put fails
\* to allocate
lru_put(L, key, val, fails) ==
  LET map_node == L.map[key]
  IN  IF map_node # NULL
        THEN LET taken == take_node(L, map_node)
                 stored == [taken EXCEPT !.nodes[map_node].key = key,
                                         !.nodes[map_node].val = val]
             IN  [L |-> push_front(stored, map_node), ret |-> TRUE]
        ELSE LET room ==
                   IF L.size = L.capacity
                     THEN LET key_to_remove == L.nodes[back(L)].key
                          IN  pop_back([L EXCEPT !.map[key_to_remove] = NULL])
                     ELSE L
                 got == m_pool_get(room, key, val)
                 new_node == got.ret
             IN  IF fails
                   THEN [L |-> m_pool_put(got.L, new_node), ret |-> FALSE]
                   ELSE [L |-> push_front([got.L EXCEPT !.map[key] = new_node],
                                          new_node),
                         ret |-> TRUE]

\* The reference cache: a sequence of <<key, val>>, most recently used
\* first.
RefHas(rc, key) == \E i \in 1..Len(rc) : rc[i][1] = key

RefWithout(rc, key) == SelectSeq(rc, LAMBDA e : e[1] # key)

RefVal(rc, key) == (CHOOSE e \in {rc[i] : i \in 1..Len(rc)} : e[1] = key)[2]

RefGet(rc, key) ==
  IF RefHas(rc, key)
    THEN <<<<key, RefVal(rc, key)>>>> \o RefWithout(rc, key)
    ELSE rc

RefPut(rc, key, val, capacity) ==
  IF RefHas(rc, key)
    THEN <<<<key, val>>>> \o RefWithout(rc, key)
    ELSE <<<<key, val>>>>
           \o (IF Len(rc) = capacity THEN SubSeq(rc, 1, Len(rc) - 1)
               ELSE rc)

SetLru(L) ==
  /\ m_head' = L.head
  /\ m_tail' = L.tail
  /\ m_size' = L.size
  /\ lru_capacity' = L.capacity
  /\ lru_nodes' = L.nodes
  /\ lru_map' = L.map
  /\ lru_pool' = L.pool

\* lru_op: the call, its key and result, the caller's out_var, whether an
\* allocation has failed so far and whether the assertions held so far.
LruOp(name, key, ret, out_var, fails, L) ==
  [name |-> name, key |-> key, ret |-> ret, out_var |-> out_var,
   faulted |-> lru_op.faulted \/ fails,
   asserts |-> lru_op.asserts /\ L.asserts]

\* The calls of one caller, who gives the cache up once a put has failed.
LruContains ==
  /\ ~lru_op.faulted
  /\ \E key \in LruKeys : \E res \in {lru_contains(ThisLru, key)} :
    /\ SetLru(res.L)
    /\ lru_ref' = lru_ref
    /\ lru_op' = LruOp("contains", key, res.ret, lru_op.out_var, FALSE, res.L)
    /\ UNCHANGED nonLruVars

LruGet ==
  /\ ~lru_op.faulted
  /\ \E key \in LruKeys : \E res \in {lru_get(ThisLru, key, lru_op.out_var)} :
    /\ SetLru(res.L)
    /\ lru_ref' = RefGet(lru_ref, key)
    /\ lru_op' = LruOp("get", key, res.ret, res.out_var, FALSE, res.L)
    /\ UNCHANGED nonLruVars

LruGetPtr ==
  /\ ~lru_op.faulted
  /\ \E key \in LruKeys : \E res \in {lru_get_ptr(ThisLru, key)} :
    /\ SetLru(res.L)
    /\ lru_ref' = RefGet(lru_ref, key)
    /\ lru_op' = LruOp("get_ptr", key, res.ret, lru_op.out_var, FALSE, res.L)
    /\ UNCHANGED nonLruVars

LruPut ==
  /\ ~lru_op.faulted
  /\ \E key \in LruKeys : \E val \in LruVals : \E fails \in BOOLEAN :
    \E res \in {lru_put(ThisLru, key, val, fails)} :
      /\ fails => lru_map[key] = NULL
      /\ SetLru(res.L)
      /\ lru_ref' = RefPut(lru_ref, key, val, lru_capacity)
      /\ lru_op' = LruOp("put", key, res.ret, lru_op.out_var, fails, res.L)
      /\ UNCHANGED nonLruVars

NextLru == LruContains \/ LruGet \/ LruGetPtr \/ LruPut

\* the nodes of the list from node n on, k of them, following next
RECURSIVE ListFrom(_, _, _)
ListFrom(nodes, n, k) ==
  IF k = 0 \/ n \notin DOMAIN nodes
    THEN <<>>
    ELSE <<n>> \o ListFrom(nodes, nodes[n].next, k - 1)

\* C26: as long as no allocation failed, the cache is the reference LRU:
\* it holds at most capacity keys; no assertion failed; the list from
\* m_head holds the keys and values of the reference in its order, most
\* recently used first (so a put
\* of a new key at capacity has evicted exactly the least recently used key
\* and every successful get, get_ptr and put has made its key the most
\* recently used); m_tail is the last node; m_map finds exactly these
\* nodes; the calls return what the reference says.
C26_RefinesReferenceLru ==
  ~lru_op.faulted =>
    LET list == ListFrom(lru_nodes, m_head, m_size)
    IN  /\ m_size <= lru_capacity
        /\ lru_op.asserts
        /\ Len(list) = m_size
        /\ [i \in 1..m_size |->
              <<lru_nodes[list[i]].key, lru_nodes[list[i]].val>>] = lru_ref
        /\ m_size > 0 => m_tail = list[m_size]
        /\ DOMAIN lru_nodes = {list[i] : i \in 1..m_size}
        /\ \A k \in LruKeys :
             IF RefHas(lru_ref, k)
               THEN lru_map[k] # NULL /\ lru_nodes[lru_map[k]].key = k
               ELSE lru_map[k] = NULL
        /\ lru_op.name = "put" => lru_op.ret = TRUE
        /\ lru_op.name \in {"get", "contains"} =>
             lru_op.ret = RefHas(lru_ref, lru_op.key)
        /\ (lru_op.name = "get" /\ lru_op.ret) =>
             lru_op.out_var = RefVal(lru_ref, lru_op.key)
        /\ lru_op.name = "get_ptr" =>
             IF RefHas(lru_ref, lru_op.key)
               THEN lru_op.ret = m_head
               ELSE lru_op.ret = NULL

\* A cache of capacity 3 is full, the last call was a put of a new key that
\* evicted a key, and the least recently used key is now one that was put
\* after the most recently used before it.
C26_Witness ==
  /\ ~lru_op.faulted
  /\ lru_capacity = MaxLruCapacity
  /\ m_size = lru_capacity
  /\ lru_op.name = "put"
  /\ \E k \in LruKeys : lru_map[k] = NULL /\ k < lru_nodes[m_tail].key
  /\ lru_nodes[m_head].key < lru_nodes[m_tail].key

\* C27: a contains call, and a get or get_ptr of a key that is not cached,
\* leave the cached keys, their values, the recency order (the whole list,
\* m_map and the pool) and the caller's out_var as they were.
C27_LookupFrame ==
  [][(\/ lru_op'.name = "contains"
      \/ lru_op'.name = "get" /\ ~lru_op'.ret
      \/ lru_op'.name = "get_ptr" /\ lru_op'.ret = NULL)
       => /\ UNCHANGED <<m_head, m_tail, m_size, lru_nodes, lru_map, lru_pool>>
          /\ lru_op'.out_var = lru_op.out_var]_vars

\* A get of a key that is not cached failed on a cache that holds keys,
\* after a get that had set the caller's out_var to 1.
C27_Witness ==
  /\ lru_op.name = "get"
  /\ ~lru_op.ret
  /\ lru_op.out_var = 1
  /\ m_size >= 2

(***************************************************************************)
(* PeriodicTask<Callable> (task.hpp): one thread owns the task object and  *)
(* calls start, signal_shutdown and join; any thread may call notify_one.  *)
(* The task thread runs the lambda of priv_start.                          *)
(***************************************************************************)

\* std::condition_variable::notify_one on m_cv: the task thread is its only
\* waiter; a notification made while nobody waits leaves nothing behind
cv_notify_one(thread) == IF thread = "wait" THEN "woken" ELSE thread

\* start(): the first call creates the thread
start ==
  /\ task_user = "new"
  /\ ~m_started
  /\ m_started' = TRUE
  /\ m_thread' = IF m_options.set_sched_params THEN "sched" ELSE "call"
  /\ task_user' = "run"
  /\ UNCHANGED <<m_mtx, m_shutdown, m_errored_out_num, m_options,
                 task_pending>>
  /\ UNCHANGED nonTaskVars

\* the lambda of priv_start, one step of the task thread
priv_start ==
  /\ \/ /\ m_thread = "sched"
        /\ \E rval \in 0..1 :
             /\ m_errored_out_num' = rval
             /\ m_thread' = IF rval # 0 THEN "done" ELSE "call"
        /\ UNCHANGED <<m_mtx, task_pending>>
     \/ /\ m_thread = "call"
        /\ m_thread' = "in_call"
        /\ task_pending' = FALSE
        /\ UNCHANGED <<m_mtx, m_errored_out_num>>
     \/ /\ m_thread = "in_call"
        /\ \E quit \in BOOLEAN :
             m_thread' = IF quit THEN "done" ELSE "lock"
        /\ UNCHANGED <<m_mtx, m_errored_out_num, task_pending>>
     \/ /\ m_thread = "lock"
        /\ m_mtx = "free"
        /\ m_mtx' = "thread"
        /\ m_thread' = "check"
        /\ UNCHANGED <<m_errored_out_num, task_pending>>
     \/ /\ m_thread = "check"
        /\ m_mtx' = "free"
        /\ m_thread' = IF m_shutdown THEN "done" ELSE "wait"
        /\ UNCHANGED <<m_errored_out_num, task_pending>>
     \/ /\ m_thread = "woken"
        /\ m_mtx = "free"
        /\ m_mtx' = "thread"
        /\ m_thread' = "unlock"
        /\ UNCHANGED <<m_errored_out_num, task_pending>>
     \/ /\ m_thread = "unlock"
        /\ m_mtx' = "free"
        /\ m_thread' = "call"
        /\ UNCHANGED <<m_errored_out_num, task_pending>>
  /\ UNCHANGED <<m_shutdown, m_started, m_options, task_user>>
  /\ UNCHANGED nonTaskVars

\* m_cv.wait_for(lck, timeout) returns because the timeout has passed
wait_for_timeout ==
  /\ m_thread = "wait"
  /\ m_options.timeout
  /\ m_thread' = "woken"
  /\ UNCHANGED <<m_mtx, m_shutdown, m_started, m_errored_out_num, m_options,
                 task_user, task_pending>>
  /\ UNCHANGED nonTaskVars

\* m_cv.wait and wait_for may return without a notification
spurious_wakeup ==
  /\ m_thread = "wait"
  /\ m_thread' = "woken"
  /\ UNCHANGED <<m_mtx, m_shutdown, m_started, m_errored_out_num, m_options,
                 task_user, task_pending>>
  /\ UNCHANGED nonTaskVars

signal_shutdown_noNotify ==
  /\ \/ /\ task_user = "run"
        /\ task_user' = "sd_lock"
        /\ UNCHANGED <<m_mtx, m_shutdown, m_thread>>
     \/ /\ task_user = "sd_lock"
        /\ m_mtx = "free"
        /\ m_mtx' = "user"
        /\ task_user' = "sd_set"
        /\ UNCHANGED <<m_shutdown, m_thread>>
     \/ /\ task_user = "sd_set"
        /\ m_shutdown' = TRUE
        /\ m_mtx' = "free"
        /\ task_user' = "sd_notify"
        /\ UNCHANGED m_thread
     \/ /\ task_user = "sd_notify"
        /\ task_user' = "run"
        /\ UNCHANGED <<m_mtx, m_shutdown, m_thread>>
  /\ UNCHANGED <<m_started, m_errored_out_num, m_options, task_pending>>
  /\ UNCHANGED nonTaskVars

\* signal_shutdown(), one step of the owner: the call, the lock_guard, the
\* store under the mutex with the release at the end of the scope, the
\* notification
signal_shutdown ==
  /\ \/ /\ task_user = "run"
        /\ task_user' = "sd_lock"
        /\ UNCHANGED <<m_mtx, m_shutdown, m_thread>>
     \/ /\ task_user = "sd_lock"
        /\ m_mtx = "free"
        /\ m_mtx' = "user"
        /\ task_user' = "sd_set"
        /\ UNCHANGED <<m_shutdown, m_thread>>
     \/ /\ task_user = "sd_set"
        /\ m_shutdown' = TRUE
        /\ m_mtx' = "free"
        /\ task_user' = "sd_notify"
        /\ UNCHANGED m_thread
     \/ /\ task_user = "sd_notify"
        /\ m_thread' = cv_notify_one(m_thread)
        /\ task_user' = "run"
        /\ UNCHANGED <<m_mtx, m_shutdown>>
  /\ UNCHANGED <<m_started, m_errored_out_num, m_options, task_pending>>
  /\ UNCHANGED nonTaskVars

\* join(): the call, and its return once the thread has ended
join ==
  /\ \/ /\ task_user = "run"
        /\ task_user' = "join"
     \/ /\ task_user = "join"
        /\ m_thread = "done"
        /\ task_user' = "joined"
  /\ UNCHANGED <<m_thread, m_mtx, m_shutdown, m_started, m_errored_out_num,
                 m_options, task_pending>>
  /\ UNCHANGED nonTaskVars

\* notify_one(), from any thread, while the task object exists
notify_one ==
  /\ m_started
  /\ task_user # "joined"
  /\ m_thread' = cv_notify_one(m_thread)
  /\ task_pending' = TRUE
  /\ UNCHANGED <<m_mtx, m_shutdown, m_started, m_errored_out_num, m_options,
                 task_user>>
  /\ UNCHANGED nonTaskVars

NextTask ==
  \/ start
  \/ priv_start
  \/ wait_for_timeout
  \/ spurious_wakeup
  \/ signal_shutdown
  \/ join
  \/ notify_one

\* C31: once signal_shutdown has been called the task thread ends, and a
\* join made with the shutdown requested returns; this holds whatever the
\* thread was doing when the request came (running the callable, about to
\* test m_shutdown, blocked in the wait).
C31_ShutdownNeverLost ==
  /\ (task_user = "sd_lock") ~> (m_thread = "done")
  /\ (task_user = "join" /\ m_shutdown) ~> (task_user = "joined")

\* the owner has returned from join after a shutdown request that found the
\* thread of a task without timeout at work
C31_Witness ==
  /\ task_user = "joined"
  /\ m_shutdown
  /\ ~m_options.timeout
  /\ m_errored_out_num = 0

\* C40: for a task without timeout that is running (no shutdown requested,
\* the thread not ended), every notify_one is followed by a new invocation
\* of the callable.
C40_NotifyLeadsToCall ==
  (task_pending /\ ~m_options.timeout) ~>
     (~task_pending \/ m_thread = "done" \/ m_shutdown \/
      task_user \in {"sd_lock", "sd_set"})

(***************************************************************************)
(* Specifications                                                          *)
(***************************************************************************)

\* after make_shared and one copy of the shared_ptr handed to every thread
InitPtr ==
  /\ m_strong_count = NumThreads
  /\ m_weak_count = 1
  /\ m_data = "live"
  /\ dtor_count = 0
  /\ dealloc_count = 0
  /\ uaf = FALSE
  /\ thr = [t \in Threads |-> Thread("idle", "none", 1, 0)]

\* rtl_tlsf_make_arena: the arena state at the start of the region and one
\* block, free and last, over the rest of it, in the list of its class
InitTlsf ==
  LET A == rtl_tlsf_make_arena
  IN  /\ blocks = A.blocks
      /\ free_lists = A.free_lists
      /\ fl_bitmap = A.fl_bitmap
      /\ sl_bitmap = A.sl_bitmap
      /\ tlsf_op = [name |-> "none", blk |-> NoBlock, merged |-> 0]

\* a control block just constructed, both counts zero, and the thread that
\* is about to make the first shared_ptr on it
InitCtor ==
  /\ m_strong_count = 0
  /\ m_weak_count = 0
  /\ m_data = "live"
  /\ dtor_count = 0
  /\ dealloc_count = 0
  /\ uaf = FALSE
  /\ thr = [t \in Threads |->
              IF t = 1 THEN Thread("make", "make", 0, 0)
                       ELSE Thread("idle", "none", 0, 0)]

\* control_blk(alloc, data) followed by inc_weak(): the weak reference is
\* held by thread 1
InitCtrl ==
  /\ m_strong_count = 0
  /\ m_weak_count = inc_weak(0)
  /\ m_data = "live"
  /\ dtor_count = 0
  /\ dealloc_count = 0
  /\ uaf = FALSE
  /\ thr = [t \in Threads |->
              Thread("idle", "none", 0, IF t = 1 THEN 1 ELSE 0)]

\* lru(alloc, capacity) of L
InitLruAs(L) ==
  /\ m_head = L.head
  /\ m_tail = L.tail
  /\ m_size = L.size
  /\ lru_capacity = L.capacity
  /\ lru_nodes = L.nodes
  /\ lru_map = L.map
  /\ lru_pool = L.pool
  /\ lru_ref = <<>>
  /\ lru_op = [name |-> "none", key |-> 0, ret |-> FALSE, out_var |-> 0,
               faulted |-> FALSE, asserts |-> TRUE]

InitLru == InitLruAs(lru(MaxLruCapacity))

\* a cache constructed with any capacity from 1 on
InitLruAny == \E capacity \in 1..MaxLruCapacity : InitLruAs(lru(capacity))

\* object_pool(alloc, num_objects, elasticity) of P
InitPoolAs(P) ==
  /\ m_vector = P.vector
  /\ m_elasticity = P.elasticity
  /\ pool_out = P.out
  /\ pool_made = P.made
  /\ pool_lost = P.lost
  /\ pool_op = [name |-> "none", arg |-> 0, ret |-> 0, size_before |-> 0,
                asked |-> 0]

\* object_pool(alloc, 0)
InitPool == InitPoolAs(object_pool(0, 1, {}))

\* a pool constructed with any arguments, under any allocator failures
InitPoolAny ==
  \E num_objects \in 0..MaxObjects : \E elasticity \in 0..MaxElasticity :
    \E oom \in SUBSET AllocOrdinals :
      InitPoolAs(object_pool(num_objects, elasticity, oom))

\* PeriodicTask(call, options) of the options given
InitTaskAs(options) ==
  /\ m_thread = "none"
  /\ m_mtx = "free"
  /\ m_shutdown = FALSE
  /\ m_started = FALSE
  /\ m_errored_out_num = 0
  /\ m_options = options
  /\ task_user = "new"
  /\ task_pending = FALSE

\* PeriodicTask(call): no scheduling parameters and no timeout
InitTask == InitTaskAs([set_sched_params |-> FALSE, timeout |-> FALSE])

\* a task constructed with any of the four kinds of options
InitTaskAny ==
  \E sched \in BOOLEAN : \E timeout \in BOOLEAN :
    InitTaskAs([set_sched_params |-> sched, timeout |-> timeout])

Init == InitRB /\ InitMap /\ InitPtr /\ InitTlsf /\ InitPool /\ InitLru /\ InitTask

InitNew == InitRB /\ InitMap /\ InitCtor /\ InitTlsf /\ InitPool /\ InitLru /\ InitTask

InitObjectPool ==
  InitRB /\ InitMap /\ InitPtr /\ InitTlsf /\ InitPoolAny /\ InitLru /\ InitTask

InitCache ==
  InitRB /\ InitMap /\ InitPtr /\ InitTlsf /\ InitPool /\ InitLruAny /\ InitTask

InitPeriodicTask ==
  InitRB /\ InitMap /\ InitPtr /\ InitTlsf /\ InitPool /\ InitLru /\ InitTaskAny

InitControlBlk ==
  InitRB /\ InitMap /\ InitCtrl /\ InitTlsf /\ InitPool /\ InitLru /\ InitTask

InitLowLoad ==
  InitRB /\ InitMapLowLoad /\ InitPtr /\ InitTlsf /\ InitPool /\ InitLru /\ InitTask

\* the copying interface of the ring buffer, one caller
SpecRB == Init /\ [][NextRB]_vars

\* the ring buffer with one producer thread and one consumer thread
SpecSPSC == Init /\ [][NextSPSC]_vars

\* the map, one caller
SpecMap == Init /\ [][NextMap]_vars

\* the map constructed with the lower max_load_factor, one caller
SpecMapLowLoad == InitLowLoad /\ [][NextMap]_vars

\* the map with reserve and finalize, one caller
SpecMapReserve == Init /\ [][NextMapReserve]_vars

\* the map with the table size latch, one caller
SpecMapLock == Init /\ [][NextMapLock]_vars

\* the control block with threads that copy and reset their own handles
SpecPtr == Init /\ [][NextPtr]_vars

\* the control block with threads that also call weak_ptr::lock
SpecLock == Init /\ [][NextLock]_vars

\* the control block from its construction on
SpecCtor == InitNew /\ [][NextCtor]_vars

\* the control block used directly, with one weak reference held
SpecCtrl == InitControlBlk /\ [][NextCtrl]_vars

\* the object pool, one caller
SpecPool == InitObjectPool /\ [][NextPool]_vars

\* the lru cache, one caller
SpecLru == InitCache /\ [][NextLru]_vars

\* the TLSF arena, one caller
SpecTlsf == Init /\ [][NextTlsf]_vars

\* the periodic task: its owner, its thread and the notifying threads
SpecTask == InitPeriodicTask /\ [][NextTask]_vars

\* the same with the scheduling the code relies on: the task thread and a
\* caller inside signal_shutdown or join keep running, a thread that asks
\* for the mutex gets it when it is released again and again, and a timeout
\* passes; nobody is obliged to call start, signal_shutdown, join or
\* notify_one, and no wait is obliged to return spuriously
SpecTaskLive ==
  /\ SpecTask
  /\ SF_vars(priv_start)
  /\ SF_vars(signal_shutdown /\ task_user # "run")
  /\ WF_vars(join /\ task_user = "join")
  /\ WF_vars(wait_for_timeout)

====
